---- MODULE Spec2Model ----
(***************************************************************************)
(* The agent tool-loop (runBashAgent, runFsAgent, runSqlAgent,             *)
(* runEmbeddingAgent), the worker process that runs one loop (worker.ts),  *)
(* the parent side of the process boundary (runAgentInWorker) and the      *)
(* tool adapters' error behaviour.                                         *)
(***************************************************************************)
EXTENDS Integers, Sequences, FiniteSets, TLC

(***************************************************************************)
(* Program constants.                                                      *)
(***************************************************************************)
MAX_STEPS == 50

LEGACY_STEPS == 20

PREVIEW_CHARS == 500

\* MAX_SCORER_RETRIES of the Factuality wrapper
MAX_SCORER_RETRIES == 3

\* matching lines searchFiles reports for one file
MAX_LINES_SHOWN == 3

(***************************************************************************)
(* Bounds of the model.                                                    *)
(***************************************************************************)
\* text deltas accumulated in one invocation
MaxText == 2

\* ceiling of the token total the model stream reports
MaxTokens == 2

\* tool calls a step issues beyond its first, summed over one invocation
MaxExtraCalls == 1

\* messages the worker sends before its terminal message
MaxMsgs == 4

\* characters of a path given to a filesystem tool
MaxPathLen == 5

\* tokens of a statement given to the query tool
MaxSqlLen == 2

\* characters of a table name given to the sample and count tools
MaxTableLen == 2

\* the first steps of an invocation, in which a step may call several tools and
\* something may go wrong (a sink throws, a tool raises or returns nothing, the
\* model call fails); each later step calls one tool at most and runs clean
MaxEarlySteps == 2

\* the character ceiling of tool output: it stands for MAX_OUTPUT_CHARS, which is
\* 30,000 in every adapter; truncateOutput is uniform in it
OutputCeiling == 3

\* how many characters beyond the ceiling a raw tool output has at most
MaxOver == 2

\* how many bash tool calls the model makes in one invocation
MaxCommands == 2

\* how many items the embeddings index holds at most
MaxItems == 3

\* how many elements the vector buffer holds at most
MaxBuffer == 3

\* how many searchSimilar calls one process serves
MaxSearches == 2

\* how many command-line arguments the debug entry point is started with at most
MaxArgs == 3

\* how many stream events the four workers of one question send in all
MaxEvents == 2

\* lines of a file searchFiles scans
MaxLines == 4

\* characters of a line of that file
MaxLineLen == 2

MaxDeliveries == 2

MaxSearchPathLen == 2

MaxUsers == 3

MaxPrs == 2

MaxCodeCalls == 2

Chunks == {"a", "b"}

ToolNames == {"t1", "t2"}

FinishReasons == {"tool-calls", "stop"}

\* lengths of the tool outputs the stream carries: a short one, one beyond the preview
OutputLens == {3, 600}

AgentTypes == {"bash", "fs", "sql", "embedding"}

\* the values AGENT_TYPE takes: evals/codemode.eval.ts forks a worker for "codemode"
EnvAgentTypes == AgentTypes \cup {"codemode"}

CallbackNames == {"onText", "onToolCall", "onToolResult", "onProgress"}

VARIABLES
  via,               \* "direct": the caller's sinks are the callbacks; "worker": worker.ts's
  agentType,
  pc,                \* where the loop is
  fullText,
  totalTokens,
  toolCallCount,
  stepsLength,       \* stream.steps.length
  lastFinishReason,  \* steps[steps.length - 1]?.finishReason
  callsThisStep,     \* tool-call events of the step being streamed
  extraCalls,        \* tool calls beyond the first of their step, so far
  pending,           \* names of the tool calls whose execution has not ended
  outcome,           \* what the invocation's promise settles with
  toolCallEvents,    \* history: tool-call events the stream yielded
  errorEvents,       \* history: error events the stream yielded
  toolRaised,        \* history: a tool execution raised
  sinkCalls,         \* history: invocations of each callback
  sinkThrew,         \* history: a caller's sink threw
  sinkLog,           \* history: the callbacks the loop invoked (worker only)
  sent,              \* messages the child has sent, in order
  sentStep,          \* history: for each message, its step and whether finish-step sent it
  childPc,           \* where worker.ts's run() is
  hasParentSpan,     \* PARENT_SPAN_CONTEXT is non-empty
  child,             \* the child process: "running", "exited", "spawnFailed"
  exitCode,          \* code of the child's 'exit' event: a number or "null"
  exitHandled,
  errorHandled,
  delivered,         \* messages the parent's 'message' handler has handled
  parentCalls,       \* history: the sinks the parent invoked
  promise,           \* the promise runAgentInWorker returned
  settleCalls,       \* history: calls of resolve or reject
  kills,             \* history: calls of child.kill()
  parent,            \* the parent process: "alive", "crashed" or "exited"
  tool,              \* the last tool execution of the adapters
  scorer,            \* the Factuality call: its attempts and what it returned
  bash,              \* the shell sandboxes of the bash invocations of the process
  embed,             \* the embedding adapter: index, vector buffer, query cache, calls
  debug,             \* the single-agent debug entry point: arguments, position, exit code
  fleet,             \* the four variants run for one question: worker and display state of each
  search,            \* searchFiles over one file: its lines and what was reported
  invocation,        \* one runAgentInWorker call: its third argument and the sinks invoked
  codemode           \* codemode-tools.ts: the file on disk, cachedData and the calls made

loopVars == <<agentType, pc, fullText, totalTokens, toolCallCount, stepsLength,
              lastFinishReason, callsThisStep, extraCalls, pending, outcome,
              toolCallEvents, errorEvents, toolRaised, sinkCalls, sinkThrew, sinkLog,
              sent, sentStep>>

childVars == <<childPc, hasParentSpan, child, exitCode>>

parentVars == <<exitHandled, errorHandled, delivered, parentCalls, promise,
                settleCalls, kills, parent>>

vars == <<via, loopVars, childVars, parentVars, tool, scorer, bash, embed, debug, fleet, search,
          invocation, codemode>>

Min(a, b) == IF a < b THEN a ELSE b

(***************************************************************************)
(* The agent variants: what differs between the four run*Agent functions.  *)
(***************************************************************************)
\* stopWhen: stepCountIs(...)
StepBudget(t) ==
  CASE t = "bash" -> MAX_STEPS
    [] t = "fs" -> MAX_STEPS
    [] t = "sql" -> LEGACY_STEPS
    [] t = "embedding" -> LEGACY_STEPS
    [] t = "codemode" -> MAX_STEPS

\* metadata.maxSteps of the variant's eval
EvalMaxSteps(t) == MAX_STEPS

\* the variant awaits stream.steps after the loop and applies the step-limit check
ChecksStepLimit(t) == t \in {"bash", "fs"}

\* the variant's switch has a case 'error' that throws event.error
HandlesErrorEvent(t) == t = "bash"

(***************************************************************************)
(* Values.                                                                 *)
(***************************************************************************)
Pending == [kind |-> "pending"]

Ok(r) == [kind |-> "ok", result |-> r]

Failure(e) == [kind |-> "error", error |-> e]

Call(cb, payload) == [cb |-> cb, payload |-> payload]

\* the tool outputs a tool-result event carries: a string or a structured value of
\* some serialised length, or no value at all
Outputs == [defined : {TRUE}, len : OutputLens] \cup {[defined |-> FALSE, len |-> 0]}

\* resultStr.slice(0, 500): the preview handed to onToolResult
Preview(len) == Min(len, PREVIEW_CHARS)

\* a slip: the tool results the sink saw are reported as the tool calls
AgentResultCountingResults ==
  [answer |-> fullText, tokens |-> totalTokens, toolCalls |-> sinkCalls["onToolResult"]]

\* a slip: fullText = event.text instead of +=, the answer is the last delta
AgentResultLastDelta ==
  [answer |-> IF fullText = <<>> THEN <<>> ELSE <<fullText[Len(fullText)]>>,
   tokens |-> totalTokens, toolCalls |-> toolCallCount]

\* a slip: the result reports no token total
AgentResultWithoutTokens ==
  [answer |-> fullText, tokens |-> 0, toolCalls |-> toolCallCount]

\* the AgentResult the function returns (latencyMs, a clock reading, left out)
AgentResult == [answer |-> fullText, tokens |-> totalTokens, toolCalls |-> toolCallCount]

\* the step-limit condition after the loop
StepLimitHit == stepsLength >= MAX_STEPS /\ lastFinishReason = "tool-calls"

\* a slip: onToolCall and onToolResult send each other's message type
WorkerMessageSwapped(c) ==
  CASE c.cb = "onText" -> [type |-> "text", payload |-> c.payload]
    [] c.cb = "onToolCall" -> [type |-> "tool_result", payload |-> c.payload]
    [] c.cb = "onToolResult" -> [type |-> "tool_call", payload |-> c.payload]
    [] c.cb = "onProgress" -> [type |-> "progress", payload |-> c.payload]

\* the message each callback of the worker sends with process.send
WorkerMessage(c) ==
  CASE c.cb = "onText" -> [type |-> "text", payload |-> c.payload]
    [] c.cb = "onToolCall" -> [type |-> "tool_call", payload |-> c.payload]
    [] c.cb = "onToolResult" -> [type |-> "tool_result", payload |-> c.payload]
    [] c.cb = "onProgress" -> [type |-> "progress", payload |-> c.payload]

Bump(counts, cb) == [counts EXCEPT ![cb] = @ + 1]

RECURSIVE Counted(_, _, _)
\* the callback counters after the first n of cbs were invoked
Counted(counts, cbs, n) ==
  IF n = 0 THEN counts ELSE Bump(Counted(counts, cbs, n - 1), cbs[n].cb)

RemoveAt(s, i) == SubSeq(s, 1, i - 1) \o SubSeq(s, i + 1, Len(s))

\* the step being streamed is one of the first steps
EarlyStep == stepsLength < MaxEarlySteps

\* the loop runs: in the caller's process, or in a live child inside run()
LoopRuns ==
  /\ pc = "streaming"
  /\ via = "worker" => child = "running" /\ childPc = "agent"

(***************************************************************************)
(* The callbacks of one handler, invoked in order: callbacks?.onX?.(...).   *)
(* k of them return; when k < Len(cbs) the next one throws and the          *)
(* exception leaves the for-await loop. The worker's callbacks only send.   *)
(***************************************************************************)
Invoke(cbs, k, tag, nextPc) ==
  /\ k \in 0..Len(cbs)
  /\ k < Len(cbs) => EarlyStep
  /\ via = "worker" => k = Len(cbs) /\ Len(sent) + Len(cbs) <= MaxMsgs
  /\ sinkCalls' = Counted(sinkCalls, cbs, Min(k + 1, Len(cbs)))
  /\ sinkThrew' = (sinkThrew \/ k < Len(cbs))
  /\ IF via = "worker"
       THEN /\ sinkLog' = sinkLog \o cbs
            /\ sent' = sent \o [i \in 1..Len(cbs) |-> WorkerMessage(cbs[i])]
            /\ sentStep' = sentStep \o [i \in 1..Len(cbs) |-> tag]
       ELSE UNCHANGED <<sinkLog, sent, sentStep>>
  /\ IF k = Len(cbs)
       THEN pc' = nextPc /\ outcome' = outcome
       ELSE pc' = "threw" /\ outcome' = Failure("SinkError")

\* the tag of a message of the step being streamed
StepTag(finish) == [step |-> stepsLength + 1, finish |-> finish]

(***************************************************************************)
(* The for-await loop over stream.fullStream: one action per event type.   *)
(***************************************************************************)
\* case 'text-delta'
TextDelta(text, k) ==
  /\ LoopRuns
  /\ Len(fullText) < MaxText
  /\ fullText' = Append(fullText, text)
  /\ Invoke(<<Call("onText", [chunk |-> text])>>, k, StepTag(FALSE), "streaming")
  /\ UNCHANGED <<agentType, totalTokens, toolCallCount, stepsLength, lastFinishReason,
                 callsThisStep, extraCalls, pending, toolCallEvents, errorEvents,
                 toolRaised>>
  /\ UNCHANGED <<via, invocation, codemode, search, fleet, debug, embed, bash, scorer, childVars, parentVars, tool>>

\* case 'tool-call'
ToolCall(name, k) ==
  /\ LoopRuns
  /\ callsThisStep = 0 \/ (extraCalls < MaxExtraCalls /\ EarlyStep)
  /\ toolCallCount' = toolCallCount + 1
  /\ toolCallEvents' = toolCallEvents + 1
  /\ callsThisStep' = callsThisStep + 1
  /\ extraCalls' = IF callsThisStep = 0 THEN extraCalls ELSE extraCalls + 1
  /\ pending' = Append(pending, name)
  /\ Invoke(<<Call("onToolCall", [toolName |-> name, args |-> "input"]),
              Call("onProgress", [toolCalls |-> toolCallCount + 1, tokens |-> totalTokens])>>,
            k, StepTag(FALSE), "streaming")
  /\ UNCHANGED <<agentType, fullText, totalTokens, stepsLength, lastFinishReason,
                 errorEvents, toolRaised>>
  /\ UNCHANGED <<via, invocation, codemode, search, fleet, debug, embed, bash, scorer, childVars, parentVars, tool>>

\* case 'tool-result'
ToolResult(i, output, k) ==
  /\ LoopRuns
  /\ i \in 1..Len(pending)
  /\ pending' = RemoveAt(pending, i)
  /\ IF output.defined
       THEN Invoke(<<Call("onToolResult",
                          [toolName |-> pending[i], result |-> Preview(output.len)])>>,
                   k, StepTag(FALSE), "streaming")
       ELSE \* JSON.stringify(undefined) is undefined: .slice raises a TypeError
            /\ k = 0
            /\ EarlyStep
            /\ pc' = "threw"
            /\ outcome' = Failure("TypeError")
            /\ UNCHANGED <<sinkCalls, sinkThrew, sinkLog, sent, sentStep>>
  /\ UNCHANGED <<agentType, fullText, totalTokens, toolCallCount, stepsLength,
                 lastFinishReason, callsThisStep, extraCalls, toolCallEvents,
                 errorEvents, toolRaised>>
  /\ UNCHANGED <<via, invocation, codemode, search, fleet, debug, embed, bash, scorer, childVars, parentVars, tool>>

\* a tool execution raised: the stream yields 'tool-error', for which the switch
\* has no case
ToolError(i) ==
  /\ LoopRuns
  /\ EarlyStep
  /\ i \in 1..Len(pending)
  /\ pending' = RemoveAt(pending, i)
  /\ toolRaised' = TRUE
  /\ UNCHANGED <<agentType, pc, fullText, totalTokens, toolCallCount, stepsLength,
                 lastFinishReason, callsThisStep, extraCalls, outcome, toolCallEvents,
                 errorEvents, sinkCalls, sinkThrew, sinkLog, sent, sentStep>>
  /\ UNCHANGED <<via, invocation, codemode, search, fleet, debug, embed, bash, scorer, childVars, parentVars, tool>>

\* case 'finish-step'; the stream goes on to another step while the step called
\* tools and the step budget is not used up
FinishStep(reason, usage, k) ==
  /\ LoopRuns
  /\ pending = <<>>
  /\ reason = "tool-calls" <=> callsThisStep > 0
  /\ totalTokens + usage <= MaxTokens
  /\ totalTokens' = totalTokens + usage
  /\ stepsLength' = stepsLength + 1
  /\ lastFinishReason' = reason
  /\ callsThisStep' = 0
  /\ Invoke(<<Call("onProgress", [toolCalls |-> toolCallCount, tokens |-> totalTokens + usage])>>,
            k, StepTag(TRUE),
            IF callsThisStep > 0 /\ stepsLength + 1 < StepBudget(agentType)
              THEN "streaming" ELSE "ended")
  /\ UNCHANGED <<agentType, fullText, toolCallCount, extraCalls, pending, toolCallEvents,
                 errorEvents, toolRaised>>
  /\ UNCHANGED <<via, invocation, codemode, search, fleet, debug, embed, bash, scorer, childVars, parentVars, tool>>

\* the stream yields 'error' (the model call failed) and ends
ErrorEvent ==
  /\ LoopRuns
  /\ EarlyStep
  /\ errorEvents' = errorEvents + 1
  /\ IF HandlesErrorEvent(agentType)
       THEN pc' = "threw" /\ outcome' = Failure("ModelError")
       ELSE pc' = "errored" /\ outcome' = outcome
  /\ UNCHANGED <<agentType, fullText, totalTokens, toolCallCount, stepsLength,
                 lastFinishReason, callsThisStep, extraCalls, pending, toolCallEvents,
                 toolRaised, sinkCalls, sinkThrew, sinkLog, sent, sentStep>>
  /\ UNCHANGED <<via, invocation, codemode, search, fleet, debug, embed, bash, scorer, childVars, parentVars, tool>>

\* after the loop: await stream.steps and the step-limit check (where the variant
\* has them), then the return. stepsSettle: how stream.steps settles after an
\* error event.
Return(stepsSettle) ==
  /\ pc \in {"ended", "errored"}
  /\ via = "worker" => child = "running" /\ childPc = "agent"
  /\ stepsSettle \in {"resolves", "rejects"}
  /\ stepsSettle = "rejects" => pc = "errored" /\ ChecksStepLimit(agentType)
  /\ IF stepsSettle = "rejects"
       THEN pc' = "threw" /\ outcome' = Failure("NoOutput")
       ELSE IF ChecksStepLimit(agentType) /\ StepLimitHit
         THEN pc' = "threw" /\ outcome' = Failure("StepLimit")
         ELSE pc' = "returned" /\ outcome' = Ok(AgentResult)
  /\ UNCHANGED <<agentType, fullText, totalTokens, toolCallCount, stepsLength,
                 lastFinishReason, callsThisStep, extraCalls, pending, toolCallEvents,
                 errorEvents, toolRaised, sinkCalls, sinkThrew, sinkLog, sent, sentStep>>
  /\ UNCHANGED <<via, invocation, codemode, search, fleet, debug, embed, bash, scorer, childVars, parentVars, tool>>

Loop ==
  \/ \E text \in Chunks, k \in 0..1 : TextDelta(text, k)
  \/ \E name \in ToolNames, k \in 0..2 : ToolCall(name, k)
  \/ \E i \in 1..Len(pending), output \in Outputs, k \in 0..1 : ToolResult(i, output, k)
  \/ \E i \in 1..Len(pending) : ToolError(i)
  \/ \E reason \in FinishReasons, usage \in 0..1, k \in 0..1 : FinishStep(reason, usage, k)
  \/ ErrorEvent
  \/ \E stepsSettle \in {"resolves", "rejects"} : Return(stepsSettle)

ZeroCalls == [cb \in CallbackNames |-> 0]

NoExit == [code |-> 0, bySignal |-> FALSE]

NoTool == [adapter |-> "none", settled |-> "none"]

NoScorer == [pc |-> "none"]

NoBash == [running |-> {}]

NoEmbed == [loaded |-> FALSE]

NoDebug == [pc |-> "none"]

NoFleet == [events |-> 0]

NoSearch == [pc |-> "none"]

NoInvocation == [pc |-> "none"]

NoCodemode == [pc |-> "none"]

InitLoopVars ==
  /\ fullText = <<>>
  /\ totalTokens = 0
  /\ toolCallCount = 0
  /\ stepsLength = 0
  /\ lastFinishReason = "none"
  /\ callsThisStep = 0
  /\ extraCalls = 0
  /\ pending = <<>>
  /\ outcome = Pending
  /\ toolCallEvents = 0
  /\ errorEvents = 0
  /\ toolRaised = FALSE
  /\ sinkCalls = ZeroCalls
  /\ sinkThrew = FALSE
  /\ sinkLog = <<>>
  /\ sent = <<>>
  /\ sentStep = <<>>

InitNoWorker ==
  /\ childPc = "none"
  /\ hasParentSpan = FALSE
  /\ child = "none"
  /\ exitCode = NoExit
  /\ exitHandled = FALSE
  /\ errorHandled = FALSE
  /\ delivered = 0
  /\ parentCalls = <<>>
  /\ promise = Pending
  /\ settleCalls = 0
  /\ kills = 0
  /\ parent = "alive"

\* a direct call of a run*Agent function with the caller's sinks (debug-agent.ts)
InitLoop ==
  /\ via = "direct"
  /\ agentType \in AgentTypes
  /\ pc = "streaming"
  /\ InitLoopVars
  /\ scorer = NoScorer
  /\ bash = NoBash
  /\ embed = NoEmbed
  /\ debug = NoDebug
  /\ fleet = NoFleet
  /\ search = NoSearch
  /\ invocation = NoInvocation
  /\ codemode = NoCodemode
  /\ InitNoWorker
  /\ tool = NoTool

NextLoop == Loop

SpecLoop == InitLoop /\ [][NextLoop]_vars

(***************************************************************************)
(* worker.ts: run() in the child process.                                  *)
(***************************************************************************)
NoStep == [step |-> 0, finish |-> FALSE]

DoneMessage(result) == [type |-> "done", payload |-> [result |-> result]]

ErrorMessage(error) == [type |-> "error", payload |-> [error |-> error]]

TerminalTypes == {"done", "error"}

\* the switch on AGENT_TYPE: an agent function is imported, or the default case
\* throws and run().catch sends the error
WorkerStart ==
  /\ via = "worker"
  /\ child = "running"
  /\ childPc = "start"
  /\ IF agentType \in AgentTypes
       THEN /\ childPc' = "agent"
            /\ pc' = "streaming"
            /\ UNCHANGED <<sent, sentStep>>
       ELSE /\ childPc' = "finished"
            /\ pc' = pc
            /\ sent' = Append(sent, ErrorMessage("Unknown agent type"))
            /\ sentStep' = Append(sentStep, NoStep)
  /\ UNCHANGED <<via, invocation, codemode, search, fleet, debug, embed, bash, scorer, agentType, fullText, totalTokens, toolCallCount, stepsLength,
                 lastFinishReason, callsThisStep, extraCalls, pending, outcome,
                 toolCallEvents, errorEvents, toolRaised, sinkCalls, sinkThrew, sinkLog,
                 hasParentSpan, child, exitCode, parentVars, tool>>

\* runAgent settled: 'done' with the result, or run().catch sends 'error'; with a
\* parent span, logger.flush() is awaited first and may reject
WorkerFinish(flushFails) ==
  /\ via = "worker"
  /\ child = "running"
  /\ childPc = "agent"
  /\ pc \in {"returned", "threw"}
  /\ flushFails => hasParentSpan /\ outcome.kind = "ok"
  /\ sent' = Append(sent,
                    IF outcome.kind = "ok"
                      THEN IF flushFails THEN ErrorMessage("FlushError")
                                         ELSE DoneMessage(outcome.result)
                      ELSE ErrorMessage(outcome.error))
  /\ sentStep' = Append(sentStep, NoStep)
  /\ childPc' = "finished"
  /\ UNCHANGED <<via, invocation, codemode, search, fleet, debug, embed, bash, scorer, agentType, pc, fullText, totalTokens, toolCallCount, stepsLength,
                 lastFinishReason, callsThisStep, extraCalls, pending, outcome,
                 toolCallEvents, errorEvents, toolRaised, sinkCalls, sinkThrew, sinkLog,
                 hasParentSpan, child, exitCode, parentVars, tool>>

\* the 'exit' events a child can end with: exit code 0, exit code 1, a signal
\* (code null)
ExitEvents == {[code |-> 0, bySignal |-> FALSE],
               [code |-> 1, bySignal |-> FALSE],
               [code |-> 0, bySignal |-> TRUE]}

\* the child process ends: it exits, crashes or is killed (by child.kill() too)
ChildExits(e) ==
  /\ via = "worker"
  /\ child = "running"
  /\ child' = "exited"
  /\ exitCode' = e
  /\ UNCHANGED <<via, invocation, codemode, search, fleet, debug, embed, bash, scorer, loopVars, childPc, hasParentSpan, parentVars, tool>>

(***************************************************************************)
(* run-in-worker.ts: the parent's handlers of the child's events.          *)
(***************************************************************************)
\* resolve(value) and reject(reason) of the promise: only the first call settles it
Settle(p, state, value) ==
  IF p.kind = "pending" THEN [kind |-> state, value |-> value] ELSE p

\* a slip: the case 'tool_result' is missing its break and falls into 'progress'
ParentCallbackFallThrough(m) ==
  CASE m.type = "text" -> Call("onText", [chunk |-> m.payload.chunk])
    [] m.type = "tool_call" ->
         Call("onToolCall", [toolName |-> m.payload.toolName, args |-> m.payload.args])
    [] m.type = "tool_result" ->
         Call("onProgress", [toolName |-> m.payload.toolName, result |-> m.payload.result])
    [] m.type = "progress" ->
         Call("onProgress", [toolCalls |-> m.payload.toolCalls, tokens |-> m.payload.tokens])

\* the sink each non-terminal message is dispatched to, with its arguments
ParentCallback(m) ==
  CASE m.type = "text" -> Call("onText", [chunk |-> m.payload.chunk])
    [] m.type = "tool_call" ->
         Call("onToolCall", [toolName |-> m.payload.toolName, args |-> m.payload.args])
    [] m.type = "tool_result" ->
         Call("onToolResult", [toolName |-> m.payload.toolName, result |-> m.payload.result])
    [] m.type = "progress" ->
         Call("onProgress", [toolCalls |-> m.payload.toolCalls, tokens |-> m.payload.tokens])

\* a slip: the case 'done' resolves without child.kill()
KillsOnErrorOnly(type) == type = "error"

\* the message types on which the handler calls child.kill()
KillsOn(type) == type \in {"done", "error"}

\* the promise after a terminal message
SettledBy(m) ==
  IF m.type = "done"
    THEN Settle(promise, "resolved", m.payload.result)
    ELSE Settle(promise, "rejected", [error |-> m.payload.error])

\* child.on('message'): the next message of the channel. A sink of the caller that
\* throws leaves the handler as an uncaught exception of the parent process.
HandleMessage(sinkThrows) ==
  /\ via = "worker"
  /\ parent = "alive"
  /\ delivered < Len(sent)
  /\ delivered' = delivered + 1
  /\ LET m == sent[delivered + 1] IN
       IF m.type \in TerminalTypes
         THEN /\ ~sinkThrows
              /\ kills' = IF KillsOn(m.type) THEN kills + 1 ELSE kills
              /\ promise' = SettledBy(m)
              /\ settleCalls' = settleCalls + 1
              /\ UNCHANGED <<parentCalls, parent>>
         ELSE /\ parentCalls' = Append(parentCalls, ParentCallback(m))
              /\ parent' = IF sinkThrows THEN "crashed" ELSE parent
              /\ UNCHANGED <<kills, promise, settleCalls>>
  /\ UNCHANGED <<via, invocation, codemode, search, fleet, debug, embed, bash, scorer, loopVars, childVars, exitHandled, errorHandled, tool>>

\* child.on('error'): the child could not be spawned
HandleError ==
  /\ via = "worker"
  /\ parent = "alive"
  /\ child = "spawnFailed"
  /\ ~errorHandled
  /\ errorHandled' = TRUE
  /\ promise' = Settle(promise, "rejected", [error |-> "spawn"])
  /\ settleCalls' = settleCalls + 1
  /\ UNCHANGED <<via, invocation, codemode, search, fleet, debug, embed, bash, scorer, loopVars, childVars, exitHandled, delivered, parentCalls, kills,
                 parent, tool>>

\* a slip: the null test is inverted (code !== 0 && code === null)
RejectsOnSignalOnly(e) == e.code # 0 /\ e.bySignal

\* code !== 0 && code !== null
RejectsOnExit(e) == e.code # 0 /\ ~e.bySignal

ExitFailure(e) == [error |-> "Worker stopped with exit code", code |-> e.code]

\* child.on('exit')
HandleExit ==
  /\ via = "worker"
  /\ parent = "alive"
  /\ child = "exited"
  /\ ~exitHandled
  /\ exitHandled' = TRUE
  /\ IF RejectsOnExit(exitCode)
       THEN /\ promise' = Settle(promise, "rejected", ExitFailure(exitCode))
            /\ settleCalls' = settleCalls + 1
       ELSE UNCHANGED <<promise, settleCalls>>
  /\ UNCHANGED <<via, invocation, codemode, search, fleet, debug, embed, bash, scorer, loopVars, childVars, errorHandled, delivered, parentCalls, kills,
                 parent, tool>>

\* runAgentInWorker(agentType, question, options): the child is forked
InitWorker ==
  /\ via = "worker"
  /\ agentType \in EnvAgentTypes
  /\ pc = "idle"
  /\ InitLoopVars
  /\ scorer = NoScorer
  /\ bash = NoBash
  /\ embed = NoEmbed
  /\ debug = NoDebug
  /\ fleet = NoFleet
  /\ search = NoSearch
  /\ invocation = NoInvocation
  /\ codemode = NoCodemode
  /\ childPc = "start"
  /\ hasParentSpan \in BOOLEAN
  /\ child \in {"running", "spawnFailed"}
  /\ exitCode = NoExit
  /\ exitHandled = FALSE
  /\ errorHandled = FALSE
  /\ delivered = 0
  /\ parentCalls = <<>>
  /\ promise = Pending
  /\ settleCalls = 0
  /\ kills = 0
  /\ parent = "alive"
  /\ tool = NoTool

NextWorker ==
  \/ Loop
  \/ WorkerStart
  \/ \E flushFails \in BOOLEAN : WorkerFinish(flushFails)
  \/ \E e \in ExitEvents : ChildExits(e)
  \/ \E sinkThrows \in BOOLEAN : HandleMessage(sinkThrows)
  \/ HandleError
  \/ HandleExit

SpecWorker == InitWorker /\ [][NextWorker]_vars

\* the parent process ends while the promise is outstanding (the interactive App
\* calls exit(), or the process is terminated). runAgentInWorker registers handlers
\* on the child only: nothing runs at the parent's exit, child.kill() is not called.
ParentExits ==
  /\ via = "worker"
  /\ parent = "alive"
  /\ parent' = "exited"
  /\ UNCHANGED <<via, invocation, codemode, search, fleet, debug, embed, bash, scorer, loopVars, childVars, exitHandled, errorHandled, delivered,
                 parentCalls, promise, settleCalls, kills, tool>>

NextParentExit ==
  \/ NextWorker
  \/ ParentExits

SpecParentExit == InitWorker /\ [][NextParentExit]_vars

(***************************************************************************)
(* The tool adapters: what execute does with its input, and how it ends.   *)
(* Strings are sequences of characters; a statement is a sequence of       *)
(* tokens.                                                                 *)
(***************************************************************************)
PathChars == {"/", ".", "d", "2"}

\* DATA_DIR, the corpus root: "/d" stands for <cwd>/data/filesystem
DATA_DIR == <<"/", "d">>

\* the files of the corpus and of a sibling directory of the root
Files == {<<"/", "d", "/", "d">>, <<"/", "d", "2", "/", "d">>}

SqlTokens == {" ", "select", "SELECT", "WITH", "DROP", "x"}

TableChars == {"a", "1", "_", ";"}

RECURSIVE BoundedSeqs(_, _)
BoundedSeqs(S, n) ==
  IF n = 0 THEN {<<>>}
  ELSE LET shorter == BoundedSeqs(S, n - 1)
       IN shorter \cup {Append(q, x) : q \in {r \in shorter : Len(r) = n - 1}, x \in S}

StartsWith(str, prefix) ==
  /\ Len(str) >= Len(prefix)
  /\ SubSeq(str, 1, Len(prefix)) = prefix

RECURSIVE StripLeadingSlashes(_)
\* path.replace(/^\/+/, '')
StripLeadingSlashes(path) ==
  IF path # <<>> /\ Head(path) = "/" THEN StripLeadingSlashes(Tail(path)) ELSE path

RECURSIVE Segments(_, _)
\* str.split('/'), with cur the segment being read
Segments(str, cur) ==
  IF str = <<>> THEN <<cur>>
  ELSE IF Head(str) = "/" THEN <<cur>> \o Segments(Tail(str), <<>>)
  ELSE Segments(Tail(str), Append(cur, Head(str)))

RECURSIVE Resolve(_, _)
\* path.normalize of an absolute path: '.' and empty segments are dropped, '..'
\* removes the segment before it and is dropped at the root
Resolve(segs, acc) ==
  IF segs = <<>> THEN acc
  ELSE LET seg == Head(segs) IN
       IF seg = <<>> \/ seg = <<".">> THEN Resolve(Tail(segs), acc)
       ELSE IF seg = <<".", ".">>
         THEN Resolve(Tail(segs), IF acc = <<>> THEN acc ELSE SubSeq(acc, 1, Len(acc) - 1))
         ELSE Resolve(Tail(segs), Append(acc, seg))

RECURSIVE Joined(_)
Joined(segs) ==
  IF segs = <<>> THEN <<>> ELSE <<"/">> \o Head(segs) \o Joined(Tail(segs))

\* path.join(a, b) for an absolute a: normalize(a + '/' + b); a trailing
\* separator is kept
Join(a, b) ==
  LET raw == IF b = <<>> THEN a ELSE a \o <<"/">> \o b
      segs == Resolve(Segments(raw, <<>>), <<>>)
      str == IF segs = <<>> THEN <<"/">> ELSE Joined(segs)
  IN IF segs # <<>> /\ raw[Len(raw)] = "/" THEN Append(str, "/") ELSE str

\* sanitizePath(path): the resolved path, or the exception it throws
sanitizePath(path) ==
  LET resolved == Join(DATA_DIR, StripLeadingSlashes(path))
  IN IF ~StartsWith(resolved, DATA_DIR)
       THEN [threw |-> TRUE, resolved |-> resolved]
       ELSE [threw |-> FALSE, resolved |-> resolved]

RECURSIVE TrimLeft(_)
TrimLeft(sql) == IF sql # <<>> /\ Head(sql) = " " THEN TrimLeft(Tail(sql)) ELSE sql

ToUpper(tok) == IF tok = "select" THEN "SELECT" ELSE IF tok = "x" THEN "X" ELSE tok

\* a slip: the statement is upper-cased but not trimmed
IsReadQueryUntrimmed(sql) ==
  sql # <<>> /\ ToUpper(Head(sql)) \in {"SELECT", "WITH"}

\* sql.trim().toUpperCase() starts with SELECT or with WITH
IsReadQuery(sql) ==
  LET normalized == TrimLeft(sql)
  IN normalized # <<>> /\ ToUpper(Head(normalized)) \in {"SELECT", "WITH"}

\* a slip: the pattern has lost its anchors, /[a-zA-Z_][a-zA-Z0-9_]*/
IsIdentifierUnanchored(table) ==
  \E i \in 1..Len(table) : table[i] \in {"a", "_"}

\* /^[a-zA-Z_][a-zA-Z0-9_]*$/.test(table)
IsIdentifier(table) ==
  /\ table # <<>>
  /\ table[1] \in {"a", "_"}
  /\ \A i \in 2..Len(table) : table[i] \in {"a", "1", "_"}

\* a tool call the model issued, not yet executed
Called(adapter, op, input) ==
  [adapter |-> adapter, op |-> op, input |-> input, settled |-> "called"]

\* how an execute ended: it returned text, or it rejected with the exception
Returned(call, raised, text) ==
  [adapter |-> call.adapter, op |-> call.op, input |-> call.input, raised |-> raised,
   settled |-> "returned", text |-> text]

Rejected(call, error) ==
  [adapter |-> call.adapter, op |-> call.op, input |-> call.input, raised |-> TRUE,
   settled |-> "rejected", text |-> [error |-> FALSE, body |-> error]]

Text(body) == [error |-> FALSE, body |-> body]

\* `Error: ${message}`
ErrorText(message) == [error |-> TRUE, body |-> message]

IsCalled(adapter, ops) ==
  /\ via = "tools"
  /\ tool.settled = "called"
  /\ tool.adapter = adapter
  /\ tool.op \in ops

\* the directories of the corpus root and of its sibling
Dirs == {DATA_DIR, <<"/", "d", "2">>}

\* an execute of fsTools that ended, with the paths it handed to the file system
\* (readFileSync, readdirSync, glob's cwd, existsSync)
Accessing(ended, paths) ==
  [adapter |-> ended.adapter, op |-> ended.op, input |-> ended.input,
   raised |-> ended.raised, settled |-> ended.settled, text |-> ended.text,
   accessed |-> paths]

\* const fullPath = sanitizePath(path): the exception leaves execute before any
\* file-system call
Blocked(call) == Accessing(Rejected(call, "Path escape attempt blocked"), {})

\* fsTools.readFile.execute
FsReadFile ==
  /\ IsCalled("fs", {"readFile"})
  /\ LET full == sanitizePath(tool.input) IN
     tool' = IF full.threw THEN Blocked(tool)
             ELSE IF full.resolved \notin Files
               THEN Accessing(Rejected(tool, "ENOENT"), {full.resolved})
             ELSE Accessing(Returned(tool, FALSE, Text("content")), {full.resolved})
  /\ UNCHANGED <<via, invocation, codemode, search, fleet, debug, embed, bash, scorer, loopVars, childVars, parentVars>>

\* fsTools.readJson.execute; parseFails: JSON.parse raises
FsReadJson(parseFails) ==
  /\ IsCalled("fs", {"readJson"})
  /\ LET full == sanitizePath(tool.input) IN
     tool' = IF full.threw THEN Blocked(tool)
             ELSE IF full.resolved \notin Files
               THEN Accessing(Rejected(tool, "ENOENT"), {full.resolved})
             ELSE IF parseFails
               THEN Accessing(Rejected(tool, "SyntaxError"), {full.resolved})
             ELSE Accessing(Returned(tool, FALSE, Text("json")), {full.resolved})
  /\ UNCHANGED <<via, invocation, codemode, search, fleet, debug, embed, bash, scorer, loopVars, childVars, parentVars>>

\* fsTools.listDir.execute: glob lists nothing under a missing directory,
\* readdirSync raises
FsListDir(recursive) ==
  /\ IsCalled("fs", {"listDir"})
  /\ LET full == sanitizePath(tool.input) IN
     tool' = IF full.threw THEN Blocked(tool)
             ELSE IF ~recursive /\ full.resolved \notin Dirs
               THEN Accessing(Rejected(tool, "ENOENT"), {full.resolved})
             ELSE Accessing(Returned(tool, FALSE, Text("entries")), {full.resolved})
  /\ UNCHANGED <<via, invocation, codemode, search, fleet, debug, embed, bash, scorer, loopVars, childVars, parentVars>>

\* fsTools.searchFiles, findFiles and countFiles: glob under fullPath; an absent
\* or empty path of findFiles and countFiles is DATA_DIR, as sanitizePath('') is
FsGlob ==
  /\ IsCalled("fs", {"searchFiles", "findFiles", "countFiles"})
  /\ "pattern" \notin DOMAIN tool
  /\ LET full == sanitizePath(tool.input) IN
     tool' = IF full.threw THEN Blocked(tool)
             ELSE Accessing(Returned(tool, FALSE, Text("files")), {full.resolved})
  /\ UNCHANGED <<via, invocation, codemode, search, fleet, debug, embed, bash, scorer, loopVars, childVars, parentVars>>

\* the glob patterns a model gives as pattern or filePattern
Patterns ==
  {<<"*">>, <<"d">>, <<".", ".", "/", "*">>, <<".", ".", "/", "*", "/", "*">>,
   <<".", ".", "/", "d", "2", "/", "d">>, <<"/", "d", "2", "/", "*">>}

\* a call of searchFiles, findFiles or countFiles with its pattern argument
PatternCall(op, path, pattern) ==
  [adapter |-> "fs", op |-> op, input |-> path, settled |-> "called", pattern |-> pattern]

\* the files and directories of the machine
Nodes == Files \cup Dirs \cup {<<"/">>}

Children(dir) == {n \in Nodes \ {dir} : Join(n, <<".", ".">>) = dir}

RECURSIVE GlobWalk(_, _)
\* glob's walk along the segments of a pattern from a directory: '..' steps to
\* the parent, '*' to every child, a name to that child
GlobWalk(segs, at) ==
  IF segs = <<>> THEN {at}
  ELSE LET seg == Head(segs) IN
       IF seg = <<>> \/ seg = <<".">> THEN GlobWalk(Tail(segs), at)
       ELSE IF seg = <<".", ".">> THEN GlobWalk(Tail(segs), Join(at, seg))
       ELSE IF seg = <<"*">> THEN UNION {GlobWalk(Tail(segs), c) : c \in Children(at)}
       ELSE IF Join(at, seg) \in Nodes THEN GlobWalk(Tail(segs), Join(at, seg))
       ELSE {}

\* glob(pattern, { cwd }): an absolute pattern is walked from the root of the
\* file system and matches are absolute, any other from cwd and matches are
\* relative to cwd
Glob(pattern, cwd) ==
  IF pattern # <<>> /\ Head(pattern) = "/"
    THEN {[relative |-> FALSE, node |-> n] : n \in GlobWalk(Segments(pattern, <<>>), <<"/">>)}
    ELSE {[relative |-> TRUE, node |-> n] : n \in GlobWalk(Segments(pattern, <<>>), cwd)}

\* an execute with a pattern that ended: the paths it listed or counted
Globbed(ended, paths, listed) ==
  [adapter |-> ended.adapter, op |-> ended.op, input |-> ended.input,
   raised |-> ended.raised, settled |-> ended.settled, text |-> ended.text,
   accessed |-> paths, pattern |-> tool.pattern, listed |-> listed]

\* findFiles.execute and countFiles.execute with their pattern, and
\* searchFiles.execute with a filePattern: join(fullPath, file) of every match
\* that is a file is read
FsGlobPattern ==
  /\ IsCalled("fs", {"searchFiles", "findFiles", "countFiles"})
  /\ "pattern" \in DOMAIN tool
  /\ LET full == sanitizePath(tool.input)
         cwd == full.resolved
         matches == IF cwd \in Dirs THEN Glob(tool.pattern, cwd) ELSE {}
         files == {m \in matches : m.node \in Files}
         read == {IF m.relative THEN m.node ELSE Join(cwd, StripLeadingSlashes(m.node)) :
                    m \in files}
     IN tool' =
          IF full.threw THEN Globbed(Rejected(tool, "Path escape attempt blocked"), {}, {})
          ELSE IF tool.op # "searchFiles"
            THEN Globbed(Returned(tool, FALSE, Text("files")), {cwd},
                         {m.node : m \in matches})
          ELSE IF \E f \in read : f \notin Files
            THEN Globbed(Rejected(tool, "ENOENT"), {cwd} \cup read, {})
          ELSE Globbed(Returned(tool, FALSE, Text("matches")), {cwd} \cup read, {})
  /\ UNCHANGED <<via, invocation, codemode, search, fleet, debug, embed, bash, scorer, loopVars, childVars, parentVars>>

\* fsTools.fileExists.execute
FsFileExists ==
  /\ IsCalled("fs", {"fileExists"})
  /\ LET full == sanitizePath(tool.input) IN
     tool' = IF full.threw THEN Blocked(tool)
             ELSE Accessing(Returned(tool, FALSE,
                      Text(IF full.resolved \in Dirs THEN "Directory exists"
                           ELSE IF full.resolved \in Files THEN "File exists"
                           ELSE "Does not exist")), {full.resolved})
  /\ UNCHANGED <<via, invocation, codemode, search, fleet, debug, embed, bash, scorer, loopVars, childVars, parentVars>>

\* an execute of sqlTools that ended: whether getDb() was called, and the
\* statements handed to database.prepare
Querying(ended, opened, statements) ==
  [adapter |-> ended.adapter, op |-> ended.op, input |-> ended.input,
   raised |-> ended.raised, settled |-> ended.settled, text |-> ended.text,
   opened |-> opened, prepared |-> statements]

\* `SELECT * FROM ${table} LIMIT ?` and `SELECT COUNT(*) as count FROM ${table}`
Interpolated(op, table) ==
  [template |-> IF op = "sample" THEN "SELECT * FROM" ELSE "SELECT COUNT(*) as count FROM",
   table |-> table]

\* sqlTools.query.execute; dbFails: prepare or all raises
SqlQuery(dbFails) ==
  /\ IsCalled("sql", {"query"})
  /\ tool' = IF ~IsReadQuery(tool.input)
               THEN Querying(Rejected(tool, "Only SELECT queries are allowed"), FALSE, {})
             ELSE IF dbFails
               THEN Querying(Rejected(tool, "SqliteError"), TRUE, {tool.input})
             ELSE Querying(Returned(tool, FALSE, Text("rows")), TRUE, {tool.input})
  /\ UNCHANGED <<via, invocation, codemode, search, fleet, debug, embed, bash, scorer, loopVars, childVars, parentVars>>

\* sqlTools.sample.execute and sqlTools.count.execute
SqlTable(dbFails) ==
  /\ IsCalled("sql", {"sample", "count"})
  /\ LET statement == Interpolated(tool.op, tool.input) IN
     tool' = IF ~IsIdentifier(tool.input)
               THEN Querying(Rejected(tool, "Invalid table name"), FALSE, {})
             ELSE IF dbFails
               THEN Querying(Rejected(tool, "SqliteError"), TRUE, {statement})
             ELSE Querying(Returned(tool, FALSE, Text("rows")), TRUE, {statement})
  /\ UNCHANGED <<via, invocation, codemode, search, fleet, debug, embed, bash, scorer, loopVars, childVars, parentVars>>

\* `SELECT COUNT(*) as count FROM ${table} WHERE ${where}`
Conditioned(table, where) ==
  [template |-> "SELECT COUNT(*) as count FROM", table |-> table, where |-> where]

\* sqlTools.count.execute called with a where argument that is not empty
SqlCountWhere(dbFails) ==
  /\ IsCalled("sql", {"countWhere"})
  /\ LET statement == Conditioned(tool.input.table, tool.input.where) IN
     tool' = IF ~IsIdentifier(tool.input.table)
               THEN Querying(Rejected(tool, "Invalid table name"), FALSE, {})
             ELSE IF dbFails
               THEN Querying(Rejected(tool, "SqliteError"), TRUE, {statement})
             ELSE Querying(Returned(tool, FALSE, Text("rows")), TRUE, {statement})
  /\ UNCHANGED <<via, invocation, codemode, search, fleet, debug, embed, bash, scorer, loopVars, childVars, parentVars>>

\* codemodeTools.code.execute: the whole body is inside try/catch
CodemodeCode(throws) ==
  /\ IsCalled("codemode", {"code"})
  /\ tool' = IF throws THEN Returned(tool, TRUE, ErrorText("exception"))
             ELSE Returned(tool, FALSE, Text("output"))
  /\ UNCHANGED <<via, invocation, codemode, search, fleet, debug, embed, bash, scorer, loopVars, childVars, parentVars>>

\* the tools of fsTools that take a path
FsPathOps ==
  {"listDir", "readFile", "readJson", "searchFiles", "findFiles", "countFiles",
   "fileExists"}

\* the tool calls a model can issue
ToolCalls ==
  {Called("fs", op, path) : op \in FsPathOps, path \in BoundedSeqs(PathChars, MaxPathLen)}
  \cup {PatternCall(op, path, pattern) :
          op \in {"searchFiles", "findFiles", "countFiles"},
          path \in BoundedSeqs(PathChars, MaxSearchPathLen), pattern \in Patterns}
  \cup {Called("sql", "query", sql) : sql \in BoundedSeqs(SqlTokens, MaxSqlLen)}
  \cup {Called("sql", op, table) :
          op \in {"sample", "count"}, table \in BoundedSeqs(TableChars, MaxTableLen)}
  \cup {Called("sql", "countWhere", [table |-> table, where |-> where]) :
          table \in BoundedSeqs(TableChars, MaxTableLen),
          where \in BoundedSeqs(SqlTokens, MaxSqlLen) \ {<<>>}}
  \cup {Called("codemode", "code", <<"code">>)}

InitTools ==
  /\ via = "tools"
  /\ agentType = "fs"
  /\ pc = "idle"
  /\ InitLoopVars
  /\ scorer = NoScorer
  /\ bash = NoBash
  /\ embed = NoEmbed
  /\ debug = NoDebug
  /\ fleet = NoFleet
  /\ search = NoSearch
  /\ invocation = NoInvocation
  /\ codemode = NoCodemode
  /\ InitNoWorker
  /\ tool \in ToolCalls

NextTools ==
  \/ FsReadFile
  \/ \E parseFails \in BOOLEAN : FsReadJson(parseFails)
  \/ \E recursive \in BOOLEAN : FsListDir(recursive)
  \/ FsGlob
  \/ FsGlobPattern
  \/ FsFileExists
  \/ \E dbFails \in BOOLEAN : SqlQuery(dbFails)
  \/ \E dbFails \in BOOLEAN : SqlTable(dbFails)
  \/ \E dbFails \in BOOLEAN : SqlCountWhere(dbFails)
  \/ \E throws \in BOOLEAN : CodemodeCode(throws)

SpecTools == InitTools /\ [][NextTools]_vars

(***************************************************************************)
(* truncateOutput of the adapters and the text each tool returns to the    *)
(* model.  A string is a sequence of characters; the truncation marker is  *)
(* one token carrying the two numbers and the adapter's hint that the      *)
(* template literal writes into it.                                        *)
(***************************************************************************)
OutChars == {"x", "y"}

Char(c) == [ch |-> c]

\* `\n\n[OUTPUT TRUNCATED: showing ${MAX_OUTPUT_CHARS} of ${output.length}
\* characters. <hint>]`; the hint differs per adapter
Marker(adapter, length) ==
  [ch |-> "[OUTPUT TRUNCATED", showing |-> OutputCeiling, of |-> length, hint |-> adapter]

\* a slip: the length test is strict, a string of exactly the ceiling is cut
truncateOutputStrict(adapter, output) ==
  IF Len(output) < OutputCeiling THEN output
  ELSE Append(SubSeq(output, 1, OutputCeiling), Marker(adapter, Len(output)))

\* truncateOutput(output) of the adapter
truncateOutput(adapter, output) ==
  IF Len(output) <= OutputCeiling THEN output
  ELSE Append(SubSeq(output, 1, OutputCeiling), Marker(adapter, Len(output)))

\* the tools whose execute returns truncateOutput(...) of the data; for bash the
\* data is the command's stdout (stderr is truncated the same way)
TruncatingTools ==
  {<<"bash", "bash">>, <<"codemode", "code">>, <<"sql", "query">>, <<"sql", "sample">>,
   <<"fs", "listDir">>, <<"fs", "readFile">>, <<"fs", "readJson">>,
   <<"fs", "searchFiles">>, <<"fs", "findFiles">>}

\* the tools whose execute returns the serialized data as it is
PlainTools ==
  {<<"sql", "schema">>, <<"sql", "tables">>, <<"embedding", "searchSimilar">>,
   <<"embedding", "getContext">>}

\* the tools that return one short line about the data (`${n} rows`, `${n} files`,
\* 'File exists')
SummaryTools == {<<"sql", "count">>, <<"fs", "countFiles">>, <<"fs", "fileExists">>}

\* the raw outputs: every string of up to MaxOver characters beyond the ceiling
RawOutputs ==
  {[i \in 1..Len(q) |-> Char(q[i])] : q \in BoundedSeqs(OutChars, OutputCeiling + MaxOver)}

\* a tool whose underlying data has been produced
Executed(t, raw) == [adapter |-> t[1], op |-> t[2], settled |-> "executed", raw |-> raw]

\* what execute returns to the model
Fed(text) ==
  [adapter |-> tool.adapter, op |-> tool.op, settled |-> "returned", raw |-> tool.raw,
   text |-> text]

IsExecuted(tools) ==
  /\ via = "output"
  /\ tool.settled = "executed"
  /\ <<tool.adapter, tool.op>> \in tools

\* return truncateOutput(output)
ReturnTruncated ==
  /\ IsExecuted(TruncatingTools)
  /\ tool' = Fed(truncateOutput(tool.adapter, tool.raw))
  /\ UNCHANGED <<via, invocation, codemode, search, fleet, debug, embed, bash, scorer, loopVars, childVars, parentVars>>

\* return tables.map(...).join(...) and return JSON.stringify(result, null, 2)
ReturnPlain ==
  /\ IsExecuted(PlainTools)
  /\ tool' = Fed(tool.raw)
  /\ UNCHANGED <<via, invocation, codemode, search, fleet, debug, embed, bash, scorer, loopVars, childVars, parentVars>>

\* return `${result.count} rows`
ReturnSummary ==
  /\ IsExecuted(SummaryTools)
  /\ tool' = Fed(<<Char("n")>>)
  /\ UNCHANGED <<via, invocation, codemode, search, fleet, debug, embed, bash, scorer, loopVars, childVars, parentVars>>

\* truncateOutput applied to a string it returned
Retruncate ==
  /\ via = "output"
  /\ tool.settled = "returned"
  /\ <<tool.adapter, tool.op>> \in TruncatingTools
  /\ tool' = [adapter |-> tool.adapter, op |-> tool.op, settled |-> "retruncated",
              raw |-> tool.raw, text |-> tool.text,
              again |-> truncateOutput(tool.adapter, tool.text)]
  /\ UNCHANGED <<via, invocation, codemode, search, fleet, debug, embed, bash, scorer, loopVars, childVars, parentVars>>

InitOutput ==
  /\ via = "output"
  /\ agentType = "fs"
  /\ pc = "idle"
  /\ InitLoopVars
  /\ scorer = NoScorer
  /\ bash = NoBash
  /\ embed = NoEmbed
  /\ debug = NoDebug
  /\ fleet = NoFleet
  /\ search = NoSearch
  /\ invocation = NoInvocation
  /\ codemode = NoCodemode
  /\ InitNoWorker
  /\ tool \in {Executed(t, raw) :
                 t \in TruncatingTools \cup PlainTools \cup SummaryTools,
                 raw \in RawOutputs}

NextOutput ==
  \/ ReturnTruncated
  \/ ReturnPlain
  \/ ReturnSummary
  \/ Retruncate

SpecOutput == InitOutput /\ [][NextOutput]_vars

(***************************************************************************)
(* The scorer: FactualityBaseScorer, an LLM classifier with fixed choice   *)
(* scores, and Factuality, the wrapper that retries it.  Scores are kept   *)
(* in tenths: 4 is 0.4 and 10 is 1.                                        *)
(***************************************************************************)
Choices == {"A", "B", "C", "D", "E"}

\* the messages of the errors a classification call throws; new Error() has ""
ErrorMessages == {"", "timeout"}

\* the scorer's arguments {input, output, expected}
ScorerArgs == [input : {"q1", "q2"}, output : {"o1", "o2"}]

NullScore == [null |-> TRUE, tenths |-> 0]

Score(tenths) == [null |-> FALSE, tenths |-> tenths]

\* the choiceScores of autoevals' own Factuality: B scores 0.6
choiceScoresUpstream(choice) ==
  CASE choice = "A" -> 4
    [] choice = "B" -> 6
    [] choice = "C" -> 10
    [] choice = "D" -> 0
    [] choice = "E" -> 10

\* choiceScores: { A: 0.4, B: 1, C: 1, D: 0, E: 1 }
choiceScores(choice) ==
  CASE choice = "A" -> 4
    [] choice = "B" -> 10
    [] choice = "C" -> 10
    [] choice = "D" -> 0
    [] choice = "E" -> 10

\* what one call of FactualityBaseScorer does: it classifies, returns a null
\* score (no parseable choice), or throws
Classified(choice) == [kind |-> "classified", choice |-> choice]

Unparsed == [kind |-> "null"]

Threw(message) == [kind |-> "threw", message |-> message]

ClassifierOutcomes ==
  {Classified(c) : c \in Choices} \cup {Unparsed} \cup {Threw(m) : m \in ErrorMessages}

\* the Score object FactualityBaseScorer resolves with
BaseResult(reply) ==
  IF reply.kind = "classified"
    THEN [name |-> "Factuality", score |-> Score(choiceScores(reply.choice)),
          metadata |-> [choice |-> reply.choice]]
    ELSE [name |-> "Factuality", score |-> NullScore, metadata |-> [choice |-> "none"]]

\* a slip: only an exception leads to another attempt, a null score is returned
FailedOnThrowOnly(reply) == reply.kind = "threw"

\* the attempts after which the loop goes on: result.score === null, or the catch
Failed(reply) == reply.kind \in {"null", "threw"}

\* lastError after a failed attempt
LastError(reply) ==
  IF reply.kind = "null" THEN "Scorer returned null score" ELSE reply.message

\* a slip: the loop starts at attempt 0
MoreAttemptsFromZero(attempt) == attempt - 1 < MAX_SCORER_RETRIES

\* the loop's test after attempt++: attempt <= MAX_SCORER_RETRIES
MoreAttempts(attempt) == attempt < MAX_SCORER_RETRIES

\* the result returned once the loop is over; an empty message reads as false
ExhaustedResult(lastError) ==
  [name |-> "Factuality", score |-> NullScore,
   metadata |-> [error |-> IF lastError = "" THEN "Unknown error after retries"
                             ELSE lastError,
                 retries |-> MAX_SCORER_RETRIES]]

\* one turn of the for loop: await FactualityBaseScorer(...), then return, or
\* continue, or leave the loop and return the error result
Attempt(reply) ==
  /\ via = "scorer"
  /\ scorer.pc = "running"
  /\ scorer' =
       IF ~Failed(reply)
         THEN [scorer EXCEPT !.pc = "returned",
                             !.log = Append(@, reply),
                             !.result = BaseResult(reply)]
       ELSE IF MoreAttempts(scorer.attempt)
         THEN [scorer EXCEPT !.attempt = @ + 1,
                             !.log = Append(@, reply),
                             !.lastError = LastError(reply)]
       ELSE [scorer EXCEPT !.pc = "returned",
                           !.log = Append(@, reply),
                           !.lastError = LastError(reply),
                           !.result = ExhaustedResult(LastError(reply))]
  /\ UNCHANGED <<via, invocation, codemode, search, fleet, debug, embed, bash, loopVars, childVars, parentVars, tool>>

\* Factuality(args) is called: lastError = null, attempt = 1
InitScorer ==
  /\ via = "scorer"
  /\ agentType = "fs"
  /\ pc = "idle"
  /\ InitLoopVars
  /\ InitNoWorker
  /\ tool = NoTool
  /\ bash = NoBash
  /\ embed = NoEmbed
  /\ debug = NoDebug
  /\ fleet = NoFleet
  /\ search = NoSearch
  /\ invocation = NoInvocation
  /\ codemode = NoCodemode
  /\ scorer \in [pc : {"running"}, args : ScorerArgs, attempt : {1}, log : {<<>>},
                 lastError : {"none"}, result : {[name |-> "none"]}]

NextScorer == \E reply \in ClassifierOutcomes : Attempt(reply)

SpecScorer == InitScorer /\ [][NextScorer]_vars

(***************************************************************************)
(* The shell sandbox of runBashAgent: each invocation builds an OverlayFs  *)
(* over DATA_DIR and a Bash on it, wraps exec in withTimeout and hands it  *)
(* to the bash tool.  OverlayFs keeps writes in memory and reads the rest  *)
(* from disk; a promise that lost the race in withTimeout is not           *)
(* cancelled.                                                              *)
(***************************************************************************)
\* DEFAULT_BASH_TOOLS
BASH_TOOLS == {"ls", "grep", "cat", "find", "head", "wc"}

\* the command names the model puts in its bash tool calls; tail is a command of
\* the sandbox that is not in BASH_TOOLS
CommandNames == {"ls", "tail"}

BashInvocations == {1, 2}

\* the files of data/filesystem on disk
RealFiles == {"repo.json"}

WritePaths == {"out", "repo.json"}

\* a slip: the overlay is built once for the module, not in runBashAgent
SharedOverlay(inv) == 1

\* const overlay = new OverlayFs({ root: DATA_DIR }) inside runBashAgent: the
\* overlay an invocation's commands run on
OverlayOf(inv) == inv

\* bash.exec(command) of invocation inv, its seq-th tool call
Command(inv, seq, name) == [inv |-> inv, seq |-> seq, name |-> name, timedOut |-> FALSE]

\* new Bash({ fs, cwd, executionLimits }): no list of commands is passed, every
\* command of the sandbox can be run; BASH_TOOLS goes to buildSystemPrompt only
Executable(name) == name \in CommandNames

\* the model's bash tool call: createTimeoutBash(...).exec(command) starts
\* bash.exec(command) and the timer
BashExec(inv, name) ==
  /\ via = "bash"
  /\ bash.awaiting[inv] = 0
  /\ bash.issued[inv] < MaxCommands
  /\ Executable(name)
  /\ LET seq == bash.issued[inv] + 1 IN
     bash' = [bash EXCEPT !.issued[inv] = seq,
                          !.awaiting[inv] = seq,
                          !.running = @ \cup {Command(inv, seq, name)},
                          !.executed = @ \cup {name}]
  /\ UNCHANGED <<via, invocation, codemode, search, fleet, debug, embed, loopVars, childVars, parentVars, tool, scorer>>

\* a running command writes a file: the write goes to the overlay of its
\* invocation, in memory
CommandWrites(c, path) ==
  /\ via = "bash"
  /\ c \in bash.running
  /\ bash' = [bash EXCEPT !.overlays[OverlayOf(c.inv)] =
                            @ \cup {[path |-> path, by |-> c.inv]},
                          !.lateWork = @ \/ c.timedOut]
  /\ UNCHANGED <<via, invocation, codemode, search, fleet, debug, embed, loopVars, childVars, parentVars, tool, scorer>>

\* setTimeout fires first: reject(new TimeoutError(...)). The tool call ends with
\* the error, bash.exec(command) is left running
Timeout(c) ==
  /\ via = "bash"
  /\ c \in bash.running
  /\ ~c.timedOut
  /\ bash' = [bash EXCEPT !.running = (@ \ {c}) \cup {[c EXCEPT !.timedOut = TRUE]},
                          !.awaiting[c.inv] = 0,
                          !.results[c.inv] = Append(@, "TimeoutError")]
  /\ UNCHANGED <<via, invocation, codemode, search, fleet, debug, embed, loopVars, childVars, parentVars, tool, scorer>>

\* bash.exec(command) settles: clearTimeout and resolve(result), which is the tool
\* result unless the timer has rejected already
CommandEnds(c) ==
  /\ via = "bash"
  /\ c \in bash.running
  /\ bash' = IF c.timedOut
               THEN [bash EXCEPT !.running = @ \ {c}]
               ELSE [bash EXCEPT !.running = @ \ {c},
                                 !.awaiting[c.inv] = 0,
                                 !.results[c.inv] = Append(@, "stdout")]
  /\ UNCHANGED <<via, invocation, codemode, search, fleet, debug, embed, loopVars, childVars, parentVars, tool, scorer>>

InitBash ==
  /\ via = "bash"
  /\ agentType = "bash"
  /\ pc = "idle"
  /\ InitLoopVars
  /\ InitNoWorker
  /\ tool = NoTool
  /\ scorer = NoScorer
  /\ embed = NoEmbed
  /\ debug = NoDebug
  /\ fleet = NoFleet
  /\ search = NoSearch
  /\ invocation = NoInvocation
  /\ codemode = NoCodemode
  /\ bash = [real |-> RealFiles,
             overlays |-> [i \in BashInvocations |-> {}],
             running |-> {},
             issued |-> [i \in BashInvocations |-> 0],
             awaiting |-> [i \in BashInvocations |-> 0],
             results |-> [i \in BashInvocations |-> <<>>],
             executed |-> {},
             lateWork |-> FALSE]

NextBash ==
  \/ \E inv \in BashInvocations, name \in CommandNames : BashExec(inv, name)
  \/ \E c \in bash.running, path \in WritePaths : CommandWrites(c, path)
  \/ \E c \in bash.running : Timeout(c)
  \/ \E c \in bash.running : CommandEnds(c)

SpecBash == InitBash /\ [][NextBash]_vars

(***************************************************************************)
(* The embedding adapter: loadEmbeddings, getQueryEmbedding with its       *)
(* queryCache, cosineSimilarity and searchSimilar.  A similarity is kept   *)
(* as the sign of the dot product and the fraction dot^2 / (normA * normB),*)
(* which orders as the cosine does; NaN is kept apart.                     *)
(***************************************************************************)
\* a query: its first 8000 characters, which are the cache key, and the rest
Queries ==
  {[key |-> "k1", rest |-> ""], [key |-> "k1", rest |-> "more"], [key |-> "k2", rest |-> ""]}

\* query.slice(0, 8000)
QueryKey(query) == query.key

\* the vector the embedding service returns for a key
QueryEmbedding(key) == IF key = "k1" THEN <<1, 1>> ELSE <<1, -1>>

ItemTypes == {"issue", "pull"}

\* the type argument of searchSimilar; an absent argument behaves as "all"
TypeArgs == {"issues", "pulls", "all"}

\* the limit argument of searchSimilar: z.number().default(10)
LimitArgs == {-1, 0, 2}

ItemOffsets == {0, 1}

BufferValues == {-1, 1}

Dimensions == {1, 2}

\* the element at a 0-based position of an array; reading past the end gives
\* undefined
At(array, pos) ==
  IF pos >= 0 /\ pos < Len(array)
    THEN [defined |-> TRUE, value |-> array[pos + 1]]
    ELSE [defined |-> FALSE, value |-> 0]

RECURSIVE SumOver(_, _, _, _, _, _)
\* the loop of cosineSimilarity from i on: the three sums, as long as every
\* element read is a number
SumOver(a, b, bOffset, dim, i, which) ==
  IF i >= dim THEN 0
  ELSE LET aVal == At(a, i).value
           bVal == At(b, bOffset + i).value
           term == CASE which = "dot" -> aVal * bVal
                     [] which = "normA" -> aVal * aVal
                     [] which = "normB" -> bVal * bVal
       IN term + SumOver(a, b, bOffset, dim, i + 1, which)

NaN == [nan |-> TRUE, sign |-> 0, num |-> 0, den |-> 1]

\* cosineSimilarity(a, b, bOffset, dim): NaN when an element read is undefined or a
\* norm is zero
cosineSimilarity(a, b, bOffset, dim) ==
  LET reads == {At(a, i) : i \in 0..(dim - 1)} \cup {At(b, bOffset + i) : i \in 0..(dim - 1)}
      dot == SumOver(a, b, bOffset, dim, 0, "dot")
      normA == SumOver(a, b, bOffset, dim, 0, "normA")
      normB == SumOver(a, b, bOffset, dim, 0, "normB")
  IN IF (\E r \in reads : ~r.defined) \/ normA * normB = 0
       THEN NaN
       ELSE [nan |-> FALSE,
             sign |-> IF dot > 0 THEN 1 ELSE IF dot < 0 THEN -1 ELSE 0,
             num |-> dot * dot, den |-> normA * normB]

\* x > y for two similarities that are numbers
Higher(x, y) == x.sign * x.num * y.den > y.sign * y.num * x.den

\* the elements of b the loop of cosineSimilarity reads lie in the buffer
ReadsInside(b, bOffset, dim) == \A i \in 0..(dim - 1) : At(b, bOffset + i).defined

\* items.filter((i) => i.type === ...): the positions of the index that are kept
Partition(items, type) ==
  SelectSeq([i \in 1..Len(items) |-> i],
            LAMBDA i : \/ type = "all"
                       \/ type = "issues" /\ items[i].type = "issue"
                       \/ type = "pulls" /\ items[i].type = "pull")

RECURSIVE InsertBySimilarity(_, _)
\* r put into a sorted list behind every entry that is not lower than it
InsertBySimilarity(sorted, r) ==
  IF sorted = <<>> THEN <<r>>
  ELSE IF Higher(r.similarity, Head(sorted).similarity) THEN <<r>> \o sorted
  ELSE <<Head(sorted)>> \o InsertBySimilarity(Tail(sorted), r)

RECURSIVE StableSort(_, _)
StableSort(results, sorted) ==
  IF results = <<>> THEN sorted
  ELSE StableSort(Tail(results), InsertBySimilarity(sorted, Head(results)))

Orderings(results) ==
  {[i \in 1..Len(results) |-> results[f[i]]] :
     f \in {g \in [1..Len(results) -> 1..Len(results)] :
              \A i, j \in 1..Len(results) : g[i] = g[j] => i = j}}

\* results.sort((a, b) => b.similarity - a.similarity): the sort is stable; with
\* a NaN among the similarities the comparator is inconsistent and the order is
\* whatever the engine produces
Sorted(results) ==
  IF \E i \in 1..Len(results) : results[i].similarity.nan
    THEN Orderings(results)
    ELSE {StableSort(results, <<>>)}

\* array.slice(0, end): a negative end counts from the end of the array
Slice(array, end) ==
  LET stop == IF end < 0 THEN (IF Len(array) + end < 0 THEN 0 ELSE Len(array) + end)
              ELSE Min(end, Len(array))
  IN SubSeq(array, 1, stop)

\* the for loop of searchSimilar over the filtered items
Similarities(query, type) ==
  LET items == embed.index.items
      dim == embed.index.dimension
      kept == Partition(items, type)
  IN [n \in 1..Len(kept) |->
        [item |-> kept[n],
         similarity |-> cosineSimilarity(QueryEmbedding(QueryKey(query)), embed.buffer,
                                         items[kept[n]].offset * dim, dim)]]

\* a searchSimilar call of the process
Search(at, query, type, limit) == [pc |-> at, query |-> query, type |-> type, limit |-> limit]

Idle == [pc |-> "idle"]

\* the call ends: similarities, sort, slice(0, limit), JSON.stringify
Finished(call, order) ==
  [pc |-> "done", query |-> call.query, type |-> call.type, limit |-> call.limit,
   result |-> Slice(order, call.limit)]

\* searchSimilar.execute up to its await: loadEmbeddings(), then getQueryEmbedding
\* up to the request to the embedding service, or the whole call on a cache hit
SearchStart(id, query, type, limit) ==
  /\ via = "embed"
  /\ id <= embed.budget
  /\ embed.calls[id] = Idle
  /\ \A j \in 1..(id - 1) : embed.calls[j] # Idle
  /\ IF ~embed.files
       THEN embed' = [embed EXCEPT !.calls[id] = Search("failed", query, type, limit)]
     ELSE IF QueryKey(query) \in embed.cache
       THEN \E order \in Sorted(Similarities(query, type)) :
              embed' = [embed EXCEPT !.loaded = TRUE,
                           !.calls[id] = Finished(Search("done", query, type, limit), order)]
     ELSE embed' = [embed EXCEPT !.loaded = TRUE,
                                 !.apiCalls[QueryKey(query)] = @ + 1,
                                 !.calls[id] = Search("awaiting", query, type, limit)]
  /\ UNCHANGED <<via, invocation, codemode, search, fleet, debug, loopVars, childVars, parentVars, tool, scorer, bash>>

\* openai.embeddings.create resolves: queryCache.set(key, embedding), then the
\* rest of execute
ApiReturns(id) ==
  /\ via = "embed"
  /\ embed.calls[id].pc = "awaiting"
  /\ LET call == embed.calls[id] IN
     \E order \in Sorted(Similarities(call.query, call.type)) :
       embed' = [embed EXCEPT !.cache = @ \cup {QueryKey(call.query)},
                              !.calls[id] = Finished(call, order)]
  /\ UNCHANGED <<via, invocation, codemode, search, fleet, debug, loopVars, childVars, parentVars, tool, scorer, bash>>

\* openai.embeddings.create rejects: execute rejects, nothing is cached
ApiFails(id) ==
  /\ via = "embed"
  /\ embed.calls[id].pc = "awaiting"
  /\ embed' = [embed EXCEPT !.calls[id].pc = "failed"]
  /\ UNCHANGED <<via, invocation, codemode, search, fleet, debug, loopVars, childVars, parentVars, tool, scorer, bash>>

\* the index files of a process: items with their offsets, the dimension, and
\* the vector buffer
Indexes ==
  [items : BoundedSeqs([type : ItemTypes, offset : ItemOffsets], MaxItems),
   dimension : Dimensions]

InitEmbedOthers ==
  /\ via = "embed"
  /\ agentType = "embedding"
  /\ pc = "idle"
  /\ InitLoopVars
  /\ InitNoWorker
  /\ tool = NoTool
  /\ scorer = NoScorer
  /\ bash = NoBash
  /\ debug = NoDebug
  /\ fleet = NoFleet
  /\ search = NoSearch
  /\ invocation = NoInvocation
  /\ codemode = NoCodemode

EmbedState(files, index, buffer, budget) ==
  [files |-> files, index |-> index, buffer |-> buffer, loaded |-> FALSE, cache |-> {},
   apiCalls |-> [k \in {"k1", "k2"} |-> 0], budget |-> budget,
   calls |-> [id \in 1..MaxSearches |-> Idle]]

\* one search over any index and buffer the files can hold
InitSearch ==
  /\ InitEmbedOthers
  /\ \E files \in BOOLEAN, index \in Indexes, buffer \in BoundedSeqs(BufferValues, MaxBuffer) :
       /\ files \/ (index.items = <<>> /\ buffer = <<>>)
       /\ embed = EmbedState(files, index, buffer, 1)

\* the index of a well-formed corpus of two items
SampleIndex ==
  [items |-> <<[type |-> "issue", offset |-> 0], [type |-> "pull", offset |-> 1]>>,
   dimension |-> 1]

\* several searches, overlapping or not, over a well-formed index
InitCache ==
  /\ InitEmbedOthers
  /\ embed = EmbedState(TRUE, SampleIndex, <<1, -1>>, MaxSearches)

NextEmbed ==
  \/ \E id \in 1..MaxSearches, query \in Queries, type \in TypeArgs, limit \in LimitArgs :
       SearchStart(id, query, type, limit)
  \/ \E id \in 1..MaxSearches : ApiReturns(id)
  \/ \E id \in 1..MaxSearches : ApiFails(id)

SpecSearch == InitSearch /\ [][NextEmbed]_vars

SpecCache == InitCache /\ [][NextEmbed]_vars

(***************************************************************************)
(* The single-agent debug entry point: main of debug-agent.ts.             *)
(***************************************************************************)
\* the own keys of AGENTS
AGENTS == {"bash", "fs", "sql", "embedding", "codemode"}

\* names every object inherits from Object.prototype
InheritedKeys == {"constructor"}

\* agentKey in AGENTS: the in operator also finds inherited properties
InAgents(agentKey) == agentKey \in AGENTS \cup InheritedKeys

\* the words a command line is made of
ArgWords == {"fs", "sql", "nope", "constructor", "why", ""}

\* what an agent function can throw
Thrown == {"Error", "null"}

\* the process has ended: its exit code, whether an agent ran, what was printed last
Exited(code, ran, printed) ==
  [pc |-> "exited", args |-> debug.args, code |-> code, agentRan |-> ran, printed |-> printed]

\* main up to the await of the agent function
DebugStart ==
  /\ via = "debug"
  /\ debug.pc = "start"
  /\ IF Len(debug.args) < 2 THEN debug' = Exited(1, FALSE, "usage")
     ELSE IF ~InAgents(debug.args[1]) THEN debug' = Exited(1, FALSE, "unknown agent")
     \* an inherited property has no color: agent.color.bold raises, main rejects,
     \* main().catch(console.error) prints it and the process ends normally
     ELSE IF debug.args[1] \notin AGENTS THEN debug' = Exited(0, FALSE, "uncaught")
     ELSE debug' = [debug EXCEPT !.pc = "running", !.agentRan = TRUE]
  /\ UNCHANGED <<via, invocation, codemode, search, fleet, loopVars, childVars, parentVars, tool, scorer, bash, embed>>

\* agent.fn resolves: the result is printed and logged
DebugAgentReturns ==
  /\ via = "debug"
  /\ debug.pc = "running"
  /\ debug' = Exited(0, TRUE, "result")
  /\ UNCHANGED <<via, invocation, codemode, search, fleet, loopVars, childVars, parentVars, tool, scorer, bash, embed>>

\* agent.fn rejects: the catch prints error.message; when the thrown value has no
\* message the catch raises itself and main().catch(console.error) prints that
DebugAgentThrows(error) ==
  /\ via = "debug"
  /\ debug.pc = "running"
  /\ debug' = Exited(0, TRUE, IF error = "Error" THEN "error" ELSE "uncaught")
  /\ UNCHANGED <<via, invocation, codemode, search, fleet, loopVars, childVars, parentVars, tool, scorer, bash, embed>>

InitDebug ==
  /\ via = "debug"
  /\ agentType = "fs"
  /\ pc = "idle"
  /\ InitLoopVars
  /\ InitNoWorker
  /\ tool = NoTool
  /\ scorer = NoScorer
  /\ bash = NoBash
  /\ embed = NoEmbed
  /\ fleet = NoFleet
  /\ search = NoSearch
  /\ invocation = NoInvocation
  /\ codemode = NoCodemode
  /\ \E args \in BoundedSeqs(ArgWords, MaxArgs) :
       debug = [pc |-> "start", args |-> args, code |-> 0, agentRan |-> FALSE, printed |-> "nothing"]

NextDebug ==
  \/ DebugStart
  \/ DebugAgentReturns
  \/ \E error \in Thrown : DebugAgentThrows(error)

SpecDebug == InitDebug /\ [][NextDebug]_vars

(***************************************************************************)
(* The four variants of one question: runAllAgents starts one worker per   *)
(* variant, each with the callbacks createCallbacks(key) makes.            *)
(***************************************************************************)
\* agentTypes of runAllAgents
Variants == {"bash", "fs", "sql", "embedding"}

\* a slip: every callback writes under the first key
FirstKey(agentKey) == "bash"

\* the key the callbacks of a variant write under
KeyOf(agentKey) == agentKey

\* the state of a variant after the reset of runAllAgents, its worker forked
Running ==
  [status |-> "running", activity |-> 0, currentText |-> FALSE, progressed |-> FALSE,
   result |-> FALSE, worker |-> "pending", child |-> "alive"]

\* a message of the child of variant k can arrive
Sending(k) == fleet.agents[k].child = "alive" /\ fleet.events < MaxEvents

\* 'text' message, onText: complete lines go to the activity list, the rest is kept
FleetText(k, newline) ==
  /\ via = "fleet"
  /\ Sending(k)
  /\ fleet' = [fleet EXCEPT !.events = @ + 1,
                 !.agents[KeyOf(k)] =
                   IF newline THEN [@ EXCEPT !.activity = @ + 1, !.currentText = FALSE]
                   ELSE [@ EXCEPT !.currentText = TRUE]]
  /\ UNCHANGED <<via, invocation, codemode, search, loopVars, childVars, parentVars, tool, scorer, bash, embed, debug>>

\* 'tool_call' message, onToolCall: pending text is flushed as thinking
FleetToolCall(k) ==
  /\ via = "fleet"
  /\ Sending(k)
  /\ fleet' = [fleet EXCEPT !.events = @ + 1,
                 !.agents[KeyOf(k)] =
                   [@ EXCEPT !.activity = @ + (IF fleet.agents[KeyOf(k)].currentText THEN 2 ELSE 1),
                             !.currentText = FALSE]]
  /\ UNCHANGED <<via, invocation, codemode, search, loopVars, childVars, parentVars, tool, scorer, bash, embed, debug>>

\* 'tool_result' message, onToolResult
FleetToolResult(k) ==
  /\ via = "fleet"
  /\ Sending(k)
  /\ fleet' = [fleet EXCEPT !.events = @ + 1,
                 !.agents[KeyOf(k)] = [@ EXCEPT !.activity = @ + 1]]
  /\ UNCHANGED <<via, invocation, codemode, search, loopVars, childVars, parentVars, tool, scorer, bash, embed, debug>>

\* 'progress' message, onProgress
FleetProgress(k) ==
  /\ via = "fleet"
  /\ Sending(k)
  /\ fleet' = [fleet EXCEPT !.events = @ + 1,
                 !.agents[KeyOf(k)] = [@ EXCEPT !.progressed = TRUE]]
  /\ UNCHANGED <<via, invocation, codemode, search, loopVars, childVars, parentVars, tool, scorer, bash, embed, debug>>

\* 'done' message: the child is killed, the promise resolves, and the rest of
\* the try block records the result; an answer starting with "Error:" is an error
FleetDone(k, isError) ==
  /\ via = "fleet"
  /\ fleet.agents[k].child = "alive"
  /\ fleet' = [fleet EXCEPT !.agents[k] =
                 IF @.worker = "pending"
                   THEN [@ EXCEPT !.status = IF isError THEN "error" ELSE "done",
                                  !.activity = @ + 1, !.currentText = FALSE,
                                  !.result = TRUE, !.worker = "resolved", !.child = "gone"]
                   ELSE [@ EXCEPT !.child = "gone"]]
  /\ UNCHANGED <<via, invocation, codemode, search, loopVars, childVars, parentVars, tool, scorer, bash, embed, debug>>

\* the ways an invocation fails: an 'error' message (the agent threw, a step
\* limit error included), an 'error' event of the child process, an exit with a
\* code other than 0
Failures == {"message", "event", "exit"}

\* the promise rejects and the catch block marks the variant; only the first
\* settlement of the promise counts
FleetFails(k, failure) ==
  /\ via = "fleet"
  /\ fleet.agents[k].child = "alive"
  /\ fleet' = [fleet EXCEPT !.agents[k] =
                 LET after == IF failure = "event" THEN fleet.agents[k].child ELSE "gone" IN
                 IF @.worker = "pending"
                   THEN [@ EXCEPT !.status = "error", !.activity = @ + 1,
                                  !.worker = "rejected", !.child = after]
                   ELSE [@ EXCEPT !.child = after]]
  /\ fleet'.agents[k] # fleet.agents[k]
  /\ UNCHANGED <<via, invocation, codemode, search, loopVars, childVars, parentVars, tool, scorer, bash, embed, debug>>

\* the child ends with code 0 without a 'done' message, or by a signal: the
\* exit handler does nothing and the promise stays pending
FleetExitsQuietly(k) ==
  /\ via = "fleet"
  /\ fleet.agents[k].child = "alive"
  /\ fleet' = [fleet EXCEPT !.agents[k].child = "gone"]
  /\ UNCHANGED <<via, invocation, codemode, search, loopVars, childVars, parentVars, tool, scorer, bash, embed, debug>>

\* the steps that come from the invocation of variant k
FleetStep(k) ==
  \/ \E newline \in BOOLEAN : FleetText(k, newline)
  \/ FleetToolCall(k)
  \/ FleetToolResult(k)
  \/ FleetProgress(k)
  \/ \E isError \in BOOLEAN : FleetDone(k, isError)
  \/ \E failure \in Failures : FleetFails(k, failure)
  \/ FleetExitsQuietly(k)

InitFleet ==
  /\ via = "fleet"
  /\ agentType = "fs"
  /\ pc = "idle"
  /\ InitLoopVars
  /\ InitNoWorker
  /\ tool = NoTool
  /\ scorer = NoScorer
  /\ bash = NoBash
  /\ embed = NoEmbed
  /\ debug = NoDebug
  /\ search = NoSearch
  /\ invocation = NoInvocation
  /\ codemode = NoCodemode
  /\ fleet = [events |-> 0, agents |-> [k \in Variants |-> Running]]

NextFleet ==
  \/ \E k \in Variants, newline \in BOOLEAN : FleetText(k, newline)
  \/ \E k \in Variants : FleetToolCall(k)
  \/ \E k \in Variants : FleetToolResult(k)
  \/ \E k \in Variants : FleetProgress(k)
  \/ \E k \in Variants, isError \in BOOLEAN : FleetDone(k, isError)
  \/ \E k \in Variants, failure \in Failures : FleetFails(k, failure)
  \/ \E k \in Variants : FleetExitsQuietly(k)

SpecFleet == InitFleet /\ [][NextFleet]_vars

(***************************************************************************)
(* searchFiles over the content of one matching file; the pattern is the   *)
(* single letter k, compiled with the g flag as the tool compiles it.      *)
(***************************************************************************)
LineChars == {"k", "x"}

\* searchPattern.test(line) of a regular expression with the g flag: the search
\* starts at lastIndex, a match moves lastIndex behind it, a miss resets it
RegExpTest(line, lastIndex) ==
  LET hits == {p \in (lastIndex + 1)..Len(line) : line[p] = "k"}
  IN IF hits = {} THEN [found |-> FALSE, lastIndex |-> 0]
     ELSE [found |-> TRUE, lastIndex |-> CHOOSE p \in hits : \A q \in hits : p <= q]

RECURSIVE ReportedLines(_, _, _, _)
\* for (let i = 0; i < lines.length && matchCount < 3; i++): the numbers of the
\* lines pushed to the results, from line i on
ReportedLines(lines, i, lastIndex, matchCount) ==
  IF i > Len(lines) \/ matchCount >= MAX_LINES_SHOWN THEN <<>>
  ELSE LET t == RegExpTest(lines[i], lastIndex) IN
       IF t.found
         THEN <<i>> \o ReportedLines(lines, i + 1, t.lastIndex, matchCount + 1)
         ELSE ReportedLines(lines, i + 1, t.lastIndex, matchCount)

RECURSIVE MatchCount(_)
\* content.match(searchPattern).length: every occurrence in the content
MatchCount(lines) ==
  IF lines = <<>> THEN 0
  ELSE Cardinality({p \in 1..Len(Head(lines)) : Head(lines)[p] = "k"}) + MatchCount(Tail(lines))

\* the body of the for loop of searchFiles for one file: content.match leaves
\* lastIndex at 0, then the lines are tested
SearchOneFile ==
  /\ via = "search"
  /\ search.pc = "scanning"
  /\ search' = [search EXCEPT !.pc = "reported",
                              !.matches = MatchCount(search.lines),
                              !.shown = IF MatchCount(search.lines) = 0 THEN <<>>
                                        ELSE ReportedLines(search.lines, 1, 0, 0)]
  /\ UNCHANGED <<via, invocation, codemode, loopVars, childVars, parentVars, tool, scorer, bash, embed,
                 debug, fleet>>

\* readFileSync(filePath, 'utf-8') of a file glob matched
InitSearchFiles ==
  /\ via = "search"
  /\ agentType = "fs"
  /\ pc = "idle"
  /\ InitLoopVars
  /\ InitNoWorker
  /\ tool = NoTool
  /\ scorer = NoScorer
  /\ bash = NoBash
  /\ embed = NoEmbed
  /\ debug = NoDebug
  /\ fleet = NoFleet
  /\ invocation = NoInvocation
  /\ codemode = NoCodemode
  /\ \E lines \in BoundedSeqs(BoundedSeqs(LineChars, MaxLineLen), MaxLines) :
       search = [pc |-> "scanning", lines |-> lines, matches |-> 0, shown |-> <<>>]

NextSearchFiles == SearchOneFile

SpecSearchFiles == InitSearchFiles /\ [][NextSearchFiles]_vars

(***************************************************************************)
(* run-in-worker.ts: the third argument of runAgentInWorker and the sinks  *)
(* the message handler finds in it.                                        *)
(***************************************************************************)
Undefined == [shape |-> "undefined"]

\* a StreamCallbacks object: every member is optional
StreamCallbacksObjects == [shape : {"callbacks"}, keys : SUBSET CallbackNames]

\* a serialised span context, or none
SpanContexts == {"undefined", "span"}

\* a WorkerOptions object: callbacks and parentSpanContext are optional
WorkerOptionsObjects ==
  [shape : {"options"}, callbacks : StreamCallbacksObjects \cup {Undefined},
   parentSpanContext : SpanContexts]

\* the property names of a value ('in' of an object)
KeysOf(obj) ==
  CASE obj.shape = "callbacks" -> obj.keys
    [] obj.shape = "options" ->
         {k \in {"callbacks"} : obj.callbacks # Undefined}
           \cup {k \in {"parentSpanContext"} : obj.parentSpanContext # "undefined"}
    [] OTHER -> {}

\* obj !== null && typeof obj === 'object' && 'onText' in obj
isStreamCallbacks(obj) == obj.shape # "undefined" /\ "onText" \in KeysOf(obj)

\* opts.callbacks and opts.parentSpanContext, as the handler and fork read them:
\* opts is { callbacks: options }, or options itself, or {}
Opts(options) ==
  IF isStreamCallbacks(options)
    THEN [callbacks |-> options, parentSpanContext |-> "undefined"]
  ELSE IF options.shape = "options"
    THEN [callbacks |-> options.callbacks, parentSpanContext |-> options.parentSpanContext]
  ELSE [callbacks |-> Undefined, parentSpanContext |-> "undefined"]

\* opts.parentSpanContext || ''
SpanEnv(opts) == IF opts.parentSpanContext = "undefined" THEN "" ELSE opts.parentSpanContext

\* the non-terminal messages a worker sends
StreamMessages ==
  {[type |-> "text", payload |-> [chunk |-> "c"]],
   [type |-> "tool_call", payload |-> [toolName |-> "t", args |-> "a"]],
   [type |-> "tool_result", payload |-> [toolName |-> "t", result |-> "r"]],
   [type |-> "progress", payload |-> [toolCalls |-> 1, tokens |-> 1]]}

\* opts.callbacks?.onX?.(...): the sink is called when opts.callbacks has it
Dispatched(opts, m) ==
  IF opts.callbacks # Undefined /\ ParentCallback(m).cb \in opts.callbacks.keys
    THEN <<ParentCallback(m)>>
    ELSE <<>>

\* runAgentInWorker up to fork(): opts is resolved, the environment is built
Fork ==
  /\ via = "invocation"
  /\ invocation.pc = "called"
  /\ invocation' = [invocation EXCEPT !.pc = "forked",
                                      !.env = SpanEnv(Opts(invocation.options))]
  /\ UNCHANGED <<via, codemode, loopVars, childVars, parentVars, tool, scorer, bash, embed,
                 debug, fleet, search>>

\* child.on('message') for a text, tool_call, tool_result or progress message
Deliver(m) ==
  /\ via = "invocation"
  /\ invocation.pc = "forked"
  /\ Len(invocation.received) < MaxDeliveries
  /\ invocation' =
       [invocation EXCEPT !.received = Append(@, m),
                          !.invoked = @ \o Dispatched(Opts(invocation.options), m)]
  /\ UNCHANGED <<via, codemode, loopVars, childVars, parentVars, tool, scorer, bash, embed,
                 debug, fleet, search>>

\* runAgentInWorker(agentType, question, options)
InitInvocation ==
  /\ via = "invocation"
  /\ agentType = "bash"
  /\ pc = "idle"
  /\ InitLoopVars
  /\ InitNoWorker
  /\ tool = NoTool
  /\ scorer = NoScorer
  /\ bash = NoBash
  /\ embed = NoEmbed
  /\ debug = NoDebug
  /\ fleet = NoFleet
  /\ search = NoSearch
  /\ codemode = NoCodemode
  /\ \E options \in {Undefined} \cup StreamCallbacksObjects \cup WorkerOptionsObjects :
       invocation = [pc |-> "called", options |-> options, env |-> "",
                     received |-> <<>>, invoked |-> <<>>]

NextInvocation ==
  \/ Fork
  \/ \E m \in StreamMessages : Deliver(m)

SpecInvocation == InitInvocation /\ [][NextInvocation]_vars

(***************************************************************************)
(* codemode-tools.ts: the dataset cached by loadData and the code tool.    *)
(* A dataset is its users array, each user given by prsOpened.             *)
(***************************************************************************)
Null == [loaded |-> FALSE]

Dataset(users) == [loaded |-> TRUE, users |-> users]

Missing == [exists |-> FALSE]

\* data/codemode.json
DiskStates ==
  {Missing} \cup {[exists |-> TRUE, users |-> u] : u \in BoundedSeqs(1..MaxPrs, MaxUsers)}

\* the code a model passes to the tool: the prompt's examples and assignments
Codes ==
  {"data.users.length", "data.users.sort((a,b) => b.prsOpened - a.prsOpened)",
   "data.users = []", "data = null", "null.x"}

RECURSIVE InsertDescending(_, _)
InsertDescending(sorted, x) ==
  IF sorted = <<>> THEN <<x>>
  ELSE IF x > Head(sorted) THEN <<x>> \o sorted
  ELSE <<Head(sorted)>> \o InsertDescending(Tail(sorted), x)

RECURSIVE SortDescending(_, _)
\* Array.prototype.sort((a, b) => b.prsOpened - a.prsOpened): the array itself is
\* reordered and returned
SortDescending(users, sorted) ==
  IF users = <<>> THEN sorted
  ELSE SortDescending(Tail(users), InsertDescending(sorted, Head(users)))

\* loadData(): cachedData if it is set, else the parsed file, else a throw
loadData(cachedData, disk) ==
  IF cachedData.loaded THEN [threw |-> FALSE, data |-> cachedData]
  ELSE IF ~disk.exists THEN [threw |-> TRUE, data |-> Null]
  ELSE [threw |-> FALSE, data |-> Dataset(disk.users)]

\* runInNewContext(code, { data, console }): the value of the code, and the object
\* data refers to afterwards. The sandbox holds a reference to the object, so what
\* the code does to data.users is done to the object itself.
RunInNewContext(code, data) ==
  CASE code = "data.users.length" -> [output |-> <<Len(data.users)>>, data |-> data]
    [] code = "data.users.sort((a,b) => b.prsOpened - a.prsOpened)" ->
         [output |-> SortDescending(data.users, <<>>),
          data |-> Dataset(SortDescending(data.users, <<>>))]
    [] code = "data.users = []" -> [output |-> <<>>, data |-> Dataset(<<>>)]
    [] code = "data = null" -> [output |-> <<>>, data |-> data]
    [] code = "null.x" -> [output |-> "Error: TypeError", data |-> data]

\* codemodeTools.code.execute({ code })
CodeCall(code) ==
  /\ via = "codemode"
  /\ Len(codemode.calls) < MaxCodeCalls
  /\ LET loaded == loadData(codemode.cachedData, codemode.disk)
         ran == RunInNewContext(code, loaded.data)
     IN codemode' =
          IF loaded.threw
            THEN [codemode EXCEPT !.calls = Append(@, [code |-> code, data |-> Null,
                                                       output |-> "Error: Data file not found"])]
            ELSE [codemode EXCEPT !.cachedData = ran.data,
                                  !.calls = Append(@, [code |-> code, data |-> loaded.data,
                                                       output |-> ran.output])]
  /\ UNCHANGED <<via, invocation, loopVars, childVars, parentVars, tool, scorer, bash, embed,
                 debug, fleet, search>>

\* the module is imported: cachedData = null
InitCodemode ==
  /\ via = "codemode"
  /\ agentType = "codemode"
  /\ pc = "idle"
  /\ InitLoopVars
  /\ InitNoWorker
  /\ tool = NoTool
  /\ scorer = NoScorer
  /\ bash = NoBash
  /\ embed = NoEmbed
  /\ debug = NoDebug
  /\ fleet = NoFleet
  /\ search = NoSearch
  /\ invocation = NoInvocation
  /\ \E disk \in DiskStates :
       codemode = [pc |-> "imported", disk |-> disk, cachedData |-> Null, calls |-> <<>>]

NextCodemode == \E code \in Codes : CodeCall(code)

SpecCodemode == InitCodemode /\ [][NextCodemode]_vars

(***************************************************************************)
(* The claims.                                                             *)
(***************************************************************************)
IsTerminal(m) == m.type \in TerminalTypes

LoopEnded == pc \in {"returned", "threw"}

\* C1: an invocation that has run all the steps of its budget fails with the
\* step-limit error when the last step's finish reason is 'tool-calls', and
\* returns an AgentResult when the last step ended with a text finish reason
C1_StepBudgetOutcome ==
  (LoopEnded /\ ~sinkThrew /\ stepsLength = StepBudget(agentType)) =>
    IF lastFinishReason = "tool-calls"
      THEN outcome = Failure("StepLimit")
      ELSE outcome.kind = "ok"

\* C2: the toolCalls of a returned AgentResult is the number of tool-call events
\* of the stream, which is the number of onToolCall invocations
C2_ToolCallsCounted ==
  outcome.kind = "ok" =>
    /\ outcome.result.toolCalls = toolCallEvents
    /\ sinkCalls["onToolCall"] = toolCallEvents

\* a returned result after several tool calls, one of which raised
C2_Witness ==
  /\ outcome.kind = "ok"
  /\ toolCallEvents >= 3
  /\ toolRaised
  /\ sinkCalls["onToolResult"] < toolCallEvents

\* C3: once the stream has yielded an error event, the invocation does not return
\* an AgentResult
C3_ErrorEventFails == errorEvents > 0 => outcome.kind # "ok"

\* C4: a tool execution in which an exception was raised ends by returning text
\* prefixed 'Error:' to the model
C4_ToolExceptionReturnedAsText ==
  (tool.settled \in {"returned", "rejected"} /\ tool.raised) =>
    tool.settled = "returned" /\ tool.text.error

\* C5: a sink that throws does not end the invocation
C5_SinkThrowIgnored == sinkThrew => outcome # Failure("SinkError")

\* C6: a 'done' message makes the parent kill the child and resolve the pending
\* promise with the carried result, an 'error' message makes it kill the child and
\* reject the pending promise with the carried reason, and a settled promise never
\* changes
C6_SettledOnce ==
  [][/\ (delivered' = delivered + 1 /\ sent[delivered + 1].type = "done") =>
          /\ kills' = kills + 1
          /\ promise.kind = "pending" =>
               promise' = [kind |-> "resolved",
                           value |-> sent[delivered + 1].payload.result]
     /\ (delivered' = delivered + 1 /\ sent[delivered + 1].type = "error") =>
          /\ kills' = kills + 1
          /\ promise.kind = "pending" =>
               promise' = [kind |-> "rejected",
                           value |-> [error |-> sent[delivered + 1].payload.error]]
     /\ promise.kind # "pending" => promise' = promise]_vars

\* the promise was resolved by 'done' and stayed resolved when the exit handler
\* rejected afterwards
C6_Witness ==
  /\ promise.kind = "resolved"
  /\ kills = 1
  /\ exitHandled
  /\ settleCalls = 2

\* C7: once the child is gone without a 'done' or 'error' message, and the parent
\* has handled its exit and every message it sent, the promise is settled
C7_GoneChildSettles ==
  (/\ via = "worker"
   /\ parent = "alive"
   /\ exitHandled
   /\ delivered = Len(sent)
   /\ \A i \in 1..Len(sent) : ~IsTerminal(sent[i])) =>
    promise.kind # "pending"

\* C8: the exit handler, run for a non-zero, non-null exit code before any 'done'
\* or 'error' message was handled, rejects the promise with the exit code
C8_NonZeroExitRejects ==
  [][(/\ exitHandled' /\ ~exitHandled
      /\ exitCode.code # 0 /\ ~exitCode.bySignal
      /\ \A i \in 1..delivered : ~IsTerminal(sent[i])) =>
       promise' = [kind |-> "rejected",
                   value |-> [error |-> "Worker stopped with exit code",
                              code |-> exitCode.code]]]_vars

\* the child crashed after sending 'done': the exit was handled first
C8_Witness ==
  /\ exitHandled
  /\ promise.kind = "rejected"
  /\ promise.value = [error |-> "Worker stopped with exit code", code |-> 1]
  /\ delivered < Len(sent)
  /\ sent[Len(sent)].type = "done"

\* messages of type t about tool name among the first i sent
SentBefore(t, name, i) ==
  Cardinality({j \in 1..i : sent[j].type = t /\ sent[j].payload.toolName = name})

\* C9: every tool_result follows its tool_call, the progress message of a
\* finished step follows every other message of the step, and the terminal
\* message is the last message, sent once the run is over
C9_MessageOrder ==
  /\ \A i \in 1..Len(sent) :
       sent[i].type = "tool_result" =>
         SentBefore("tool_call", sent[i].payload.toolName, i)
           >= SentBefore("tool_result", sent[i].payload.toolName, i)
  /\ \A j \in 1..Len(sent) :
       sentStep[j].finish =>
         /\ sent[j].type = "progress"
         /\ \A i \in 1..Len(sent) : sentStep[i].step = sentStep[j].step => i <= j
  /\ \A i \in 1..Len(sent) : IsTerminal(sent[i]) => i = Len(sent)
  /\ childPc = "finished" => Len(sent) > 0 /\ IsTerminal(sent[Len(sent)])

\* a finished run with a tool call, its result and the step's closing progress
C9_Witness ==
  /\ childPc = "finished"
  /\ sent[Len(sent)].type = "done"
  /\ \E i \in 1..Len(sent) : sent[i].type = "tool_result"
  /\ \E j \in 1..Len(sent) : sentStep[j].finish

\* non-terminal messages among those the parent has handled
DispatchedCount == Cardinality({i \in 1..delivered : ~IsTerminal(sent[i])})

\* C10: the sinks the parent has invoked are, in order and with their
\* arguments, the callbacks the loop invoked in the child for the messages
\* handled so far, and all of them once 'done' has resolved the promise
C10_SinksMirrored ==
  via = "worker" =>
    /\ Len(parentCalls) = DispatchedCount
    /\ Len(parentCalls) <= Len(sinkLog)
    /\ \A i \in 1..Len(parentCalls) : parentCalls[i] = sinkLog[i]
    /\ promise.kind = "resolved" => parentCalls = sinkLog

\* every kind of callback was mirrored
C10_Witness ==
  /\ parentCalls = sinkLog
  /\ {parentCalls[i].cb : i \in 1..Len(parentCalls)} = CallbackNames

\* C11: the parent process is never gone while the child it forked still runs
C11_NoOrphanedChild == parent # "alive" => child # "running"

\* a resolved path that is neither the corpus root nor below it
OutsideRoot(resolved) ==
  /\ resolved # DATA_DIR
  /\ ~StartsWith(resolved, DATA_DIR \o <<"/">>)

\* C12: a filesystem tool called with a path that resolves outside the corpus
\* root, a sibling directory whose name starts with the root's name included, is
\* rejected and hands no path to the file system
C12_OutsidePathRejected ==
  (/\ tool.adapter = "fs"
   /\ tool.settled \in {"returned", "rejected"}
   /\ OutsideRoot(sanitizePath(tool.input).resolved)) =>
    /\ tool.settled = "rejected"
    /\ tool.accessed = {}

\* C13: truncateOutput returns a string of at most the ceiling unchanged, and of
\* a longer one exactly its first ceiling characters followed by the marker
C13_TruncateOutput ==
  (/\ via = "output"
   /\ tool.settled = "returned"
   /\ <<tool.adapter, tool.op>> \in TruncatingTools) =>
    IF Len(tool.raw) <= OutputCeiling
      THEN tool.text = tool.raw
      ELSE /\ Len(tool.text) = OutputCeiling + 1
           /\ \A i \in 1..OutputCeiling : tool.text[i] = tool.raw[i]
           /\ tool.text[OutputCeiling + 1] = Marker(tool.adapter, Len(tool.raw))

\* a string of exactly the ceiling was returned whole, and a longer one was cut
C13_Witness ==
  /\ via = "output"
  /\ tool.settled = "returned"
  /\ <<tool.adapter, tool.op>> \in TruncatingTools
  /\ Len(tool.raw) = OutputCeiling
  /\ tool.text = tool.raw

\* C14: truncating the result of a truncation changes nothing
C14_TruncateIdempotent ==
  (via = "output" /\ tool.settled = "retruncated") => tool.again = tool.text

\* C15: the text a tool returns to the model holds at most the ceiling of
\* characters of output, and the marker
C15_ResultTruncated ==
  (via = "output" /\ tool.settled = "returned") =>
    Len(tool.text) <= OutputCeiling + 1

\* the first token of a statement that is not white space is a read-only keyword,
\* in either case
BeginsWithReadKeyword(sql) ==
  \E i \in 1..Len(sql) :
    /\ \A j \in 1..(i - 1) : sql[j] = " "
    /\ sql[i] \in {"select", "SELECT", "WITH"}

\* C16: the query tool prepares a statement only if it begins with SELECT or WITH
\* after trimming and upper-casing, and then prepares its text as given; any other
\* statement is rejected with 'Only SELECT queries are allowed' before the
\* database is opened
C16_QueryWhitelist ==
  (/\ via = "tools"
   /\ tool.adapter = "sql" /\ tool.op = "query"
   /\ tool.settled \in {"returned", "rejected"}) =>
    IF BeginsWithReadKeyword(tool.input)
      THEN tool.opened /\ tool.prepared = {tool.input}
      ELSE /\ tool.settled = "rejected"
           /\ tool.text.body = "Only SELECT queries are allowed"
           /\ ~tool.opened
           /\ tool.prepared = {}

\* a lower-case select after white space was executed as written
C16_Witness ==
  /\ via = "tools"
  /\ tool.adapter = "sql" /\ tool.op = "query"
  /\ tool.settled = "returned"
  /\ tool.input = <<" ", "select">>
  /\ tool.prepared = {tool.input}

\* C17: sample and count put the table into SQL text only when it is an
\* identifier; for any other value they fail with 'Invalid table name' and prepare
\* nothing
C17_TableIdentifier ==
  (/\ via = "tools"
   /\ tool.adapter = "sql" /\ tool.op \in {"sample", "count"}
   /\ tool.settled \in {"returned", "rejected"}) =>
    IF /\ tool.input # <<>>
       /\ tool.input[1] \notin {"1", ";"}
       /\ \A i \in 1..Len(tool.input) : tool.input[i] # ";"
      THEN tool.prepared = {Interpolated(tool.op, tool.input)}
      ELSE /\ tool.settled = "rejected"
           /\ tool.text.body = "Invalid table name"
           /\ ~tool.opened
           /\ tool.prepared = {}

\* a table name with a statement separator after a letter was refused
C17_Witness ==
  /\ via = "tools"
  /\ tool.adapter = "sql" /\ tool.op = "sample"
  /\ tool.settled = "rejected"
  /\ tool.input = <<"a", ";">>
  /\ tool.prepared = {}

\* the attempts of the call that failed
FailedAttempts == {i \in 1..Len(scorer.log) : scorer.log[i].kind \in {"null", "threw"}}

\* C18: the classifier is invoked at least once and at most MAX_SCORER_RETRIES
\* times, every attempt but the last one failed, and a call that ends on an
\* attempt with a score returns that attempt's result unchanged
C18_BoundedRetries ==
  via = "scorer" =>
    /\ Len(scorer.log) <= MAX_SCORER_RETRIES
    /\ \A i \in 1..(Len(scorer.log) - 1) : i \in FailedAttempts
    /\ scorer.pc = "running" => FailedAttempts = 1..Len(scorer.log)
    /\ scorer.pc = "returned" =>
         /\ Len(scorer.log) >= 1
         /\ Len(scorer.log) \notin FailedAttempts =>
              scorer.result = BaseResult(scorer.log[Len(scorer.log)])

\* the third attempt was the first with a score, and ended the call
C18_Witness ==
  /\ via = "scorer"
  /\ scorer.pc = "returned"
  /\ Len(scorer.log) = MAX_SCORER_RETRIES
  /\ FailedAttempts = 1..(MAX_SCORER_RETRIES - 1)
  /\ ~scorer.result.score.null

\* the message of the last failed attempt
LastFailureMessage ==
  LET last == scorer.log[Len(scorer.log)]
  IN IF last.kind = "null" THEN "Scorer returned null score" ELSE last.message

\* C19 as stated: a call whose attempts all failed returns a null score with
\* retries = 3 and the message of the last failed attempt, and a null score is
\* returned in that case only
C19_NullScoreWithLastMessage ==
  (via = "scorer" /\ scorer.pc = "returned") =>
    IF FailedAttempts = 1..MAX_SCORER_RETRIES
      THEN scorer.result =
             [name |-> "Factuality", score |-> NullScore,
              metadata |-> [error |-> LastFailureMessage, retries |-> MAX_SCORER_RETRIES]]
      ELSE ~scorer.result.score.null

\* C19, amended: the metadata holds the message of the last failed attempt, or
\* 'Unknown error after retries' when that message is empty
C19_NullScoreWithLastMessageOrDefault ==
  (via = "scorer" /\ scorer.pc = "returned") =>
    IF FailedAttempts = 1..MAX_SCORER_RETRIES
      THEN scorer.result =
             [name |-> "Factuality", score |-> NullScore,
              metadata |-> [error |-> IF LastFailureMessage = ""
                                        THEN "Unknown error after retries"
                                        ELSE LastFailureMessage,
                            retries |-> MAX_SCORER_RETRIES]]
      ELSE ~scorer.result.score.null

\* three failures, the last one an exception with a message
C19_Witness ==
  /\ via = "scorer"
  /\ scorer.pc = "returned"
  /\ FailedAttempts = 1..MAX_SCORER_RETRIES
  /\ scorer.log[1].kind = "null"
  /\ scorer.result.metadata.error = "timeout"

\* C20: subset scores 0.4, superset, equivalent and immaterial difference 1,
\* disagreement 0, so that every score returned is 0, 0.4 or 1
C20_ChoiceWeights ==
  (via = "scorer" /\ scorer.pc = "returned" /\ ~scorer.result.score.null) =>
    LET choice == scorer.log[Len(scorer.log)].choice
        tenths == scorer.result.score.tenths
    IN /\ choice = "A" => tenths = 4
       /\ choice \in {"B", "C", "E"} => tenths = 10
       /\ choice = "D" => tenths = 0
       /\ tenths \in {0, 4, 10}

\* a superset answer scored 1
C20_Witness ==
  /\ via = "scorer"
  /\ scorer.pc = "returned"
  /\ scorer.log[Len(scorer.log)] = Classified("B")
  /\ scorer.result.score = Score(10)

\* C21: a command that exceeded the timeout ends the tool call with a timeout
\* error, is aborted and does no further work, and never runs next to a later
\* command of its invocation
C21_TimedOutCommandAborted ==
  via = "bash" =>
    /\ \A c \in bash.running : ~c.timedOut
    /\ ~bash.lateWork
    /\ \A c, d \in bash.running : (c.inv = d.inv) => c = d

\* C22: the bash tool executes only commands named in BASH_TOOLS
C22_OnlyWhitelistedRun == via = "bash" => bash.executed \subseteq BASH_TOOLS

C24_OneRequestPerKey ==
  via = "embed" => \A k \in DOMAIN embed.apiCalls : embed.apiCalls[k] <= 1

\* an item's vector does not lie in the buffer, or the buffer does not hold
\* count times dimension elements
IndexInvalid ==
  \/ \E i \in 1..Len(embed.index.items) :
       ~ReadsInside(embed.buffer, embed.index.items[i].offset * embed.index.dimension,
                    embed.index.dimension)
  \/ Len(embed.buffer) # Len(embed.index.items) * embed.index.dimension

\* C25: with an item offset outside the buffer or a buffer of the wrong size the
\* load fails before a query is served, and no search computes a similarity
\* from elements outside the buffer
C25_InvalidIndexFatalAtLoad ==
  via = "embed" =>
    /\ IndexInvalid =>
         /\ ~embed.loaded
         /\ \A id \in 1..MaxSearches : embed.calls[id].pc \in {"idle", "failed"}
    /\ \A id \in 1..MaxSearches :
         embed.calls[id].pc = "done" =>
           \A n \in 1..Len(embed.calls[id].result) :
             ReadsInside(embed.buffer,
                         embed.index.items[embed.calls[id].result[n].item].offset
                           * embed.index.dimension,
                         embed.index.dimension)

\* x is not below y, both being numbers
NotBelow(x, y) == ~x.nan /\ ~y.nan /\ ~Higher(y, x)

\* C26: a search returns min(limit, size of the selected partition) results, all
\* of the partition, in descending similarity with equal ones in index order,
\* and leaves out no item that is strictly more similar than a returned one
C26_TopResults ==
  via = "embed" =>
    \A id \in 1..MaxSearches :
      embed.calls[id].pc = "done" =>
        LET call == embed.calls[id]
            r == call.result
            all == Similarities(call.query, call.type)
            kept == Partition(embed.index.items, call.type)
            returned == {r[n].item : n \in 1..Len(r)}
        IN /\ Len(r) = Min(call.limit, Len(kept))
           /\ \A n \in 1..Len(r) : \E m \in 1..Len(kept) : kept[m] = r[n].item
           /\ \A n, m \in 1..Len(r) :
                n < m => /\ NotBelow(r[n].similarity, r[m].similarity)
                         /\ ~Higher(r[n].similarity, r[m].similarity) => r[n].item < r[m].item
           /\ \A m \in 1..Len(all) :
                all[m].item \notin returned =>
                  \A n \in 1..Len(r) : ~Higher(all[m].similarity, r[n].similarity)

\* C27: the debug entry point exits non-zero, before any agent runs, when the
\* agent argument is unknown or the question is missing; in every other run it
\* exits with code 0, whether the agent returned or failed
C27_DebugExitCode ==
  (via = "debug" /\ debug.pc = "exited") =>
    IF Len(debug.args) < 2 \/ debug.args[1] \notin AGENTS
      THEN debug.code # 0 /\ ~debug.agentRan
      ELSE debug.code = 0

\* C28: with the four variants running for one question, a step of one variant's
\* invocation, its failure included, leaves the worker and the recorded state of
\* every other variant as they were
C28_FailureConfined ==
  [][via = "fleet" =>
       \A k \in Variants :
         FleetStep(k) => \A j \in Variants \ {k} : fleet'.agents[j] = fleet.agents[j]]_vars

\* one variant has failed, another has finished with its result, a third is
\* still running and has streamed
C28_Witness ==
  /\ via = "fleet"
  /\ \E k, j, r \in Variants :
       /\ fleet.agents[k].status = "error" /\ fleet.agents[k].worker = "rejected"
       /\ fleet.agents[j].status = "done" /\ fleet.agents[j].worker = "resolved"
       /\ fleet.agents[r].status = "running" /\ fleet.agents[r].activity > 0

\* the chunks of the onText calls of a list of callback calls, in order
TextOfCalls(calls) ==
  LET texts == SelectSeq(calls, LAMBDA c : c.cb = "onText")
  IN [i \in 1..Len(texts) |-> texts[i].payload.chunk]

\* the chunks of the 'text' messages among the first n messages of the channel
TextOfMessages(n) ==
  LET texts == SelectSeq(SubSeq(sent, 1, n), LAMBDA m : m.type = "text")
  IN [i \in 1..Len(texts) |-> texts[i].payload.chunk]

\* C29: the answer of a returned AgentResult is the concatenation of the text
\* deltas in stream order, which is the concatenation of the chunks handed to
\* onText and, in the parent, of the 'text' messages received before 'done'
C29_AnswerIsStreamedText ==
  via = "worker" =>
    /\ outcome.kind = "ok" =>
         /\ outcome.result.answer = fullText
         /\ outcome.result.answer = TextOfCalls(sinkLog)
    /\ promise.kind = "resolved" =>
         /\ promise.value.answer = fullText
         /\ promise.value.answer = TextOfMessages(delivered)
         /\ promise.value.answer = TextOfCalls(parentCalls)

\* the parent holds the result of a run that streamed two different deltas
C29_Witness ==
  /\ via = "worker"
  /\ promise.kind = "resolved"
  /\ Len(promise.value.answer) = 2
  /\ promise.value.answer[1] # promise.value.answer[2]

\* C30: every variant stops its loop at the same budget of MAX_STEPS steps, the
\* value its eval records as maxSteps: a run the budget has stopped, the model
\* still asking for tools, has made exactly that many steps
C30_SameStepBudget ==
  (via = "direct" /\ pc = "ended" /\ lastFinishReason = "tool-calls") =>
    /\ stepsLength = EvalMaxSteps(agentType)
    /\ stepsLength = MAX_STEPS

\* a statement that holds a keyword that changes data or schema
Modifies(sql) == \E i \in 1..Len(sql) : sql[i] = "DROP"

\* C32: every statement the query tool hands to the database is a read-only
\* query; none that changes data or schema passes the whitelist, one that begins
\* with WITH included
C32_OnlyReadStatements ==
  (via = "tools" /\ tool.adapter = "sql" /\ tool.op = "query"
     /\ tool.settled \in {"returned", "rejected"}) =>
    \A statement \in tool.prepared : ~Modifies(statement)

\* C35: sample and count put into the SQL text only a table name that passed
\* the identifier pattern; a count on a table prepares the one row count over
\* that table, whatever the where argument holds
C35_OnlyIdentifiersInterpolated ==
  (via = "tools" /\ tool.adapter = "sql" /\ tool.op \in {"count", "countWhere"}
     /\ tool.settled \in {"returned", "rejected"}) =>
    LET table == IF tool.op = "count" THEN tool.input ELSE tool.input.table
    IN tool.prepared \subseteq {Interpolated("count", table)}

\* C36: whatever pattern findFiles, countFiles or searchFiles is given, every
\* file the tool lists, counts or reads lies inside the corpus root
C36_GlobStaysInRoot ==
  (via = "tools" /\ tool.adapter = "fs" /\ "pattern" \in DOMAIN tool
     /\ tool.settled \in {"returned", "rejected"}) =>
    \A f \in tool.listed \cup tool.accessed : ~OutsideRoot(f)

\* the numbers of the lines that contain the pattern
MatchingLines(lines) ==
  SelectSeq([i \in 1..Len(lines) |-> i],
            LAMBDA i : \E p \in 1..Len(lines[i]) : lines[i][p] = "k")

\* C33: for a file that matches, searchFiles reports the total match count and
\* the first three lines that contain a match, all of them when fewer match, in
\* line order, skipping none
C33_FirstThreeMatchingLines ==
  (via = "search" /\ search.pc = "reported" /\ search.matches > 0) =>
    LET matching == MatchingLines(search.lines)
    IN /\ search.matches = MatchCount(search.lines)
       /\ search.shown = SubSeq(matching, 1, Min(MAX_LINES_SHOWN, Len(matching)))

\* the positions of the onProgress calls in the log of the loop's callbacks
ProgressAt == {i \in 1..Len(sinkLog) : sinkLog[i].cb = "onProgress"}

\* the onToolCall calls among the first n calls of the log
ToolCallsBefore(n) == Cardinality({i \in 1..n : sinkLog[i].cb = "onToolCall"})

\* C34: every onProgress update carries the number of tool-call events seen so
\* far and the tokens of the steps finished so far, neither value ever
\* decreases, and a returned result carries the values of the last update
C34_ProgressTracksTotals ==
  via = "worker" =>
    /\ \A i \in ProgressAt : sinkLog[i].payload.toolCalls = ToolCallsBefore(i)
    /\ \A i, j \in ProgressAt :
         i < j => /\ sinkLog[i].payload.toolCalls <= sinkLog[j].payload.toolCalls
                  /\ sinkLog[i].payload.tokens <= sinkLog[j].payload.tokens
    /\ \A i \in ProgressAt :
         (\A j \in ProgressAt : j <= i) =>
           /\ sinkLog[i].payload.toolCalls = toolCallCount
           /\ sinkLog[i].payload.tokens = totalTokens
           /\ outcome.kind = "ok" =>
                /\ outcome.result.tokens = sinkLog[i].payload.tokens
                /\ outcome.result.toolCalls = sinkLog[i].payload.toolCalls

\* a returned result after a tool call and several updates with a growing
\* token total
C34_Witness ==
  /\ via = "worker"
  /\ outcome.kind = "ok"
  /\ outcome.result.tokens > 1
  /\ outcome.result.toolCalls > 0
  /\ \E i, j \in ProgressAt :
       /\ i < j
       /\ 0 < sinkLog[i].payload.tokens
       /\ sinkLog[i].payload.tokens < sinkLog[j].payload.tokens

\* C37: whatever value a tool-result event carries, a string, a structured
\* value or none, the loop hands a preview of at most 500 characters to
\* onToolResult and goes on; no tool output makes the invocation fail
C37_AnyToolOutputForwarded ==
  /\ ~(outcome.kind = "error" /\ outcome.error = "TypeError")
  /\ \A i \in 1..Len(sinkLog) :
       sinkLog[i].cb = "onToolResult" => sinkLog[i].payload.result <= PREVIEW_CHARS

\* C38: every agent type an eval creates a worker task for is dispatched to an
\* agent function by the worker; no task ends with 'Unknown agent type'
C38_EvalAgentsDispatched ==
  via = "worker" =>
    \A i \in 1..Len(sent) : sent[i] # ErrorMessage("Unknown agent type")

\* C40: once the promise of runAgentInWorker is settled, no sink callback of the
\* invocation is invoked any more, whatever messages are still in transit
C40_NoSinkAfterSettle ==
  [][(via = "worker" /\ promise.kind # "pending") => parentCalls' = parentCalls]_vars

\* C31: whichever of the two shapes the third argument of runAgentInWorker has, every
\* delivered message whose sink the caller supplied (in a StreamCallbacks object, or as
\* the callbacks of a WorkerOptions object) has invoked that sink, and a
\* parentSpanContext of a WorkerOptions object is the one handed to the child
SuppliedCallbacks(options) ==
  CASE options.shape = "callbacks" -> options.keys
    [] options.shape = "options" /\ options.callbacks # Undefined -> options.callbacks.keys
    [] OTHER -> {}

Expected(options, received) ==
  SelectSeq([i \in 1..Len(received) |-> ParentCallback(received[i])],
            LAMBDA c : c.cb \in SuppliedCallbacks(options))

C31_BothSignaturesServed ==
  (via = "invocation" /\ invocation.pc = "forked") =>
    /\ invocation.invoked = Expected(invocation.options, invocation.received)
    /\ invocation.options.shape = "options" =>
         invocation.env = SpanEnv(invocation.options)

\* C39: every code tool call that got a dataset was evaluated against the dataset
\* as it is on disk, and the cached dataset is the one on disk
C39_DatasetUnchanged ==
  via = "codemode" =>
    /\ \A i \in 1..Len(codemode.calls) :
         codemode.calls[i].data.loaded =>
           codemode.calls[i].data = Dataset(codemode.disk.users)
    /\ codemode.cachedData.loaded => codemode.cachedData = Dataset(codemode.disk.users)

====
